---- MODULE Spec2Model ----
(***************************************************************************)
(* Model of the expression compiler of pkg/proc/evalop (evalcompile.go):   *)
(* the lowering of an expression AST to a list of stack-machine ops, the   *)
(* stack depth verifier, and an abstract executor of the op list that      *)
(* follows jumps and call injection opcodes.                               *)
(*                                                                         *)
(* Indices of ops are the 0-based indices of the Go slice: the op at Go    *)
(* index i is ops[i+1] of the TLA+ sequence, and Jump targets are Go       *)
(* indices.                                                                *)
(***************************************************************************)
EXTENDS Integers, Sequences, FiniteSets, TLC

VARIABLES
  src,        \* the input of the run: entry point and its arguments
  phase,      \* "input", "compiled", "exec", "done"
  ops,        \* the op list returned by the entry point (<<>> for nil)
  err,        \* the error returned by the entry point ("" for nil)
  depthTab,   \* the depth table depthCheck computed (<<>>: it did not run)
  pc,         \* executor: Go index of the next op to execute
  stack,      \* executor: the value stack, top last
  lastpc,     \* executor: Go index of the op executed last (-1: none)
  executed,   \* executor: set of Go indices of ops executed so far
  nstart,     \* executor: per call id, executions of its start opcode
  ncomplete,  \* executor: per call id, executions of CallInjectionComplete
  pinIter,    \* executor: pinning loop iterations taken so far
  env,        \* executor: values read from the boolean locals
  it,         \* map iteration: the iterator (NoIter outside a map iteration)
  trace,      \* map iteration: the result of each next() call so far
  user,       \* hardware breakpoints: u_debugreg of the traced thread's user area
  last,       \* hardware breakpoints: the last step, the call it belongs to and its result
  inflight    \* hardware breakpoints: per caller, the call it is in the middle of

vars == <<src, phase, ops, err, depthTab, pc, stack, lastpc, executed, nstart, ncomplete, pinIter, env,
          it, trace, user, last, inflight>>
\* The variables of the compiler and of the executor, those of a map
\* iteration and those of the hardware breakpoints.
evalVars == <<phase, ops, err, depthTab, pc, stack, lastpc, executed, nstart, ncomplete, pinIter, env>>
mapVars == <<it, trace>>
NoIter == [impl |-> "none"]
hwVars == <<user, last, inflight>>
NoUser == <<>>
NoCall == [op |-> "none"]
NoInflight == <<>>

(***************************************************************************)
(* Bounds of the model.                                                    *)
(***************************************************************************)
MaxArgs == 2      \* arguments of a generated call expression
MaxElts == 1      \* elements of a generated struct composite literal
MaxPinIter == 2   \* iterations of one run through pinning loops
MaxOps == 3       \* length of the op lists given to depthCheck directly
MaxText == 4      \* characters of a text given to Compile

(***************************************************************************)
(* Flags (evalcompile.go:43-48).                                           *)
(***************************************************************************)
CanSet == 1
HasDebugPinner == 2

HasFlag(flags, bit) == (flags \div bit) % 2 = 1

ErrFuncCallNotAllowed == "function calls not allowed without using 'call'"
errFuncCallNotAllowedLitAlloc == "literal can not be allocated because function calls are not allowed without using 'call'"
DebugPinnerFunctionName == "runtime.debugPinner"
ErrTypeNotFound == "no type entry found, use 'types' for a list of valid types"

(***************************************************************************)
(* Ops.  Every op is a record of one shape; a field an op does not have    *)
(* keeps the value of NoOp.                                                *)
(***************************************************************************)
NoOp == [op |-> "nil", id |-> -1, Name |-> "", ArgNum |-> 0, N |-> 0, Target |-> 0,
         When |-> "", Pop |-> FALSE, HasFunc |-> FALSE, DoPinning |-> FALSE,
         HasHigh |-> FALSE]

Op(k) == [NoOp EXCEPT !.op = k]
OpNamed(k, name) == [NoOp EXCEPT !.op = k, !.Name = name]
Jump(when, pop, target) == [NoOp EXCEPT !.op = "Jump", !.When = when, !.Pop = pop, !.Target = target]
CallInjectionStart(hasFunc, id) == [NoOp EXCEPT !.op = "CallInjectionStart", !.HasFunc = hasFunc, !.id = id]
CallInjectionStartSpecial(id, fnname) == [NoOp EXCEPT !.op = "CallInjectionStartSpecial", !.id = id, !.Name = fnname]
CallInjectionSetTarget(id) == [NoOp EXCEPT !.op = "CallInjectionSetTarget", !.id = id]
CallInjectionCopyArg(id, argNum) == [NoOp EXCEPT !.op = "CallInjectionCopyArg", !.id = id, !.ArgNum = argNum]
CallInjectionComplete(id, doPinning) == [NoOp EXCEPT !.op = "CallInjectionComplete", !.id = id, !.DoPinning = doPinning]
CallInjectionComplete2(id) == [NoOp EXCEPT !.op = "CallInjectionComplete2", !.id = id]

PushOps == {"PushCurg", "PushFrameoff", "PushThreadID", "PushRegister", "PushConst",
            "PushLocal", "PushNil", "PushPackageVar", "PushPinAddress",
            "PushDebugPinner", "PushRuntimeType"}
UnaryOps == {"Select", "TypeAssert", "PointerDeref", "Unary", "AddrOf", "TypeCast",
             "BoolToConst"}

\* The stack effect <<npop, npush>> of an op (the depthCheck method of each Op).
Arity(o) ==
  CASE o.op \in PushOps -> <<0, 1>>
    [] o.op \in UnaryOps -> <<1, 1>>
    [] o.op = "PushLen" -> <<1, 2>>
    [] o.op = "Dup" -> <<1, 2>>
    [] o.op \in {"Index", "Binary"} -> <<2, 1>>
    [] o.op = "Reslice" -> IF o.HasHigh THEN <<3, 1>> ELSE <<2, 1>>
    [] o.op = "Jump" -> IF o.Pop THEN <<1, 0>> ELSE <<0, 0>>
    [] o.op \in {"Pop", "SetDebugPinner", "CallInjectionSetTarget", "CallInjectionCopyArg"} -> <<1, 0>>
    [] o.op = "BuiltinCall" -> <<o.N, 1>>
    [] o.op \in {"CallInjectionStart", "CallInjectionStartSpecial"} -> <<0, 1>>
    [] o.op = "CallInjectionComplete" -> IF o.DoPinning THEN <<0, 0>> ELSE <<0, 1>>
    [] o.op = "CallInjectionComplete2" -> <<0, 1>>
    [] o.op = "ConvertAllocToString" -> <<2, 1>>
    [] o.op = "SetValue" -> <<2, 0>>
    [] o.op = "Roll" -> <<o.N, o.N>>
    [] OTHER -> <<0, 0>>

(***************************************************************************)
(* depthCheck (evalcompile.go:207-252).                                    *)
(***************************************************************************)
errUnderflow == "internal debugger error: depth check error: expected at least"
errJumpTarget == "internal debugger error: depth check error: jump target"
errPinning == "internal debugger error: pinning call injection seen before call to runtime.debugPinner"
errEndDepth == "internal debugger error: depth check failed: depth at the end"
errPanic == "panic: index out of range"

\* Variant of checkAndSet that sets an unset entry and compares nothing.
checkAndSetNoCompare(depth, j, d) ==
  [depth |-> IF depth[j] < 0 THEN [depth EXCEPT ![j] = d] ELSE depth, err |-> ""]

\* checkAndSet mutant: a set entry is overwritten instead of compared.
checkAndSetOverwrite(depth, j, d) ==
  [depth |-> [depth EXCEPT ![j] = d], err |-> ""]

\* The closure checkAndSet: sets depth[j] to d when unset, else compares.
checkAndSet(depth, j, d) ==
  LET depth1 == IF depth[j] < 0 THEN [depth EXCEPT ![j] = d] ELSE depth
  IN [depth |-> depth1, err |-> IF d # depth1[j] THEN errJumpTarget ELSE ""]

\* The switch on the op that ends an iteration: r1 is checkAndSet(i+1, d),
\* r2 the checkAndSet of a Jump's target (r1 again for an op that is no Jump).
depthStepSwitch(st, o, r1, r2) ==
  [depth |-> r2.depth,
   debugPinnerSeen |-> st.debugPinnerSeen \/ o.op = "CallInjectionStartSpecial",
   err |-> IF o.op = "CallInjectionComplete" /\ o.DoPinning /\ ~st.debugPinnerSeen
           THEN errPinning
           ELSE IF r2.err # "" THEN r2.err ELSE r1.err]

\* An iteration from checkAndSet(i+1, d) on.  A Jump whose target is not an
\* index of the depth table makes depth[op.Target] panic.
depthStepSet(os, st, o, d, r1) ==
  IF o.op = "Jump" /\ o.Target \notin 0..Len(os)
  THEN [depth |-> r1.depth, debugPinnerSeen |-> st.debugPinnerSeen, err |-> errPanic]
  ELSE depthStepSwitch(st, o, r1,
         IF o.op = "Jump" THEN checkAndSet(r1.depth, o.Target, d)
         ELSE [depth |-> r1.depth, err |-> ""])

\* One iteration of the loop over ctx.ops, at Go index i.  st is the state of
\* the loop: the depth table, debugPinnerSeen, and the error it returned with
\* ("" while it runs; an iteration after the return does nothing).
depthStep(os, st, i) ==
  IF st.err # "" THEN st
  ELSE
    LET o == os[i + 1]
        npop == Arity(o)[1]
        d == st.depth[i] - npop + Arity(o)[2]
    IN IF st.depth[i] < npop THEN [st EXCEPT !.err = errUnderflow]
       ELSE depthStepSet(os, st, o, d, checkAndSet(st.depth, i + 1, d))

RECURSIVE depthLoop(_, _, _, _)
\* The iterations lo..hi-1 of the loop, in order.
depthLoop(os, st, lo, hi) ==
  IF hi <= lo THEN st
  ELSE IF hi = lo + 1 THEN depthStep(os, st, lo)
  ELSE LET mid == (lo + hi) \div 2
           left == depthLoop(os, st, lo, mid)
       IN IF left.err # "" THEN left ELSE depthLoop(os, left, mid, hi)

depthInit(os) == [depth |-> [j \in 0..Len(os) |-> IF j = 0 THEN 0 ELSE -1],
                  debugPinnerSeen |-> FALSE, err |-> ""]

\* The check after the loop: r is the state the loop ended in.
depthEnd(r, n, endDepth) ==
  IF r.err # "" THEN [err |-> r.err, depth |-> r.depth]
  ELSE IF r.depth[n] # endDepth THEN [err |-> errEndDepth, depth |-> r.depth]
  ELSE [err |-> "", depth |-> r.depth]

depthCheck(os, endDepth) == depthEnd(depthLoop(os, depthInit(os), 0, Len(os)), Len(os), endDepth)

(***************************************************************************)
(* The AST of go/ast, as records with a "kind" field.                      *)
(***************************************************************************)
NoExpr == [kind |-> "nil"]
Ident(name) == [kind |-> "Ident", Name |-> name]
\* A basic literal; Value is the text of the literal as written in the
\* expression, a string literal with its quotes.
BasicLit(k, v) == [kind |-> "BasicLit", Kind |-> k, Value |-> v]
ParenExpr(x) == [kind |-> "ParenExpr", X |-> x]
SelectorExpr(x, sel) == [kind |-> "SelectorExpr", X |-> x, Sel |-> sel]
CallExpr(fun, args) == [kind |-> "CallExpr", Fun |-> fun, Args |-> args]
StarExpr(x) == [kind |-> "StarExpr", X |-> x]
UnaryExpr(op, x) == [kind |-> "UnaryExpr", Op |-> op, X |-> x]
BinaryExpr(x, op, y) == [kind |-> "BinaryExpr", X |-> x, Op |-> op, Y |-> y]
IndexExpr(x, index) == [kind |-> "IndexExpr", X |-> x, Index |-> index]
SliceExpr(x, low, high, slice3) == [kind |-> "SliceExpr", X |-> x, Low |-> low, High |-> high, Slice3 |-> slice3]
TypeAssertExpr(x, typ) == [kind |-> "TypeAssertExpr", X |-> x, Type |-> typ]
CompositeLit(typ, elts) == [kind |-> "CompositeLit", Type |-> typ, Elts |-> elts]
KeyValueExpr(key, value) == [kind |-> "KeyValueExpr", Key |-> key, Value |-> value]
ArrayType(elt) == [kind |-> "ArrayType", Elt |-> elt]

(***************************************************************************)
(* The evalLookup the compiler is given (evalcompile.go:35-41): the scope  *)
(* of the stopped program.  The model fixes one scope.                     *)
(***************************************************************************)
BoolLocals == {"a", "b"}
Locals == BoolLocals \cup {"x", "y"}
Globals == {<<"", "f">>, <<"", "g">>, <<"main", "v">>}
Builtins == {"len"}
Registers == {"rax"}
StructFields == <<"p", "q", "r">>
StructT == [kind |-> "StructType", Name |-> "T", Field |-> StructFields]
TypeTable == [T |-> StructT,
              TT |-> [kind |-> "TypedefType", Name |-> "TT", Type |-> StructT],
              int |-> [kind |-> "BasicType", Name |-> "int"],
              IntSlice |-> [kind |-> "SliceType", Name |-> "IntSlice"],
              StrMap |-> [kind |-> "MapType", Name |-> "StrMap"],
              Arr |-> [kind |-> "ArrayType", Name |-> "Arr"],
              TS |-> [kind |-> "TypedefType", Name |-> "TS",
                      Type |-> [kind |-> "SliceType", Name |-> "IntSlice"]]]

HasLocal(name) == name \in Locals
HasGlobal(pkg, name) == <<pkg, name>> \in Globals
HasBuiltin(name) == name \in Builtins
LookupRegisterName(name) == name \in Registers

\* strconv.Unquote on the literals of the generated inputs: the text of a
\* string literal without its quotes; any other text is a syntax error.
errUnquote == "invalid syntax"
Unquote(s) ==
  LET lits == ("\"s\"" :> "s") @@ ("\"T\"" :> "T") @@ ("\"U\"" :> "U") @@ ("\"[]byte\"" :> "[]byte")
                @@ ("\"1\"" :> "1") @@ ("\"main\"" :> "main")
  IN IF s \in DOMAIN lits THEN [v |-> lits[s], err |-> ""] ELSE [v |-> "", err |-> errUnquote]

FindTypeExpr(t) ==
  IF t.kind = "Ident" /\ t.Name \in DOMAIN TypeTable
  THEN [typ |-> TypeTable[t.Name], err |-> ""]
  ELSE IF t.kind = "BasicLit" /\ t.Kind = "STRING" /\ Unquote(t.Value).v \in DOMAIN TypeTable
  THEN [typ |-> TypeTable[Unquote(t.Value).v], err |-> ""]
  ELSE [typ |-> [kind |-> "nil"], err |-> ErrTypeNotFound]

RECURSIVE ResolveTypedef(_)
ResolveTypedef(typ) ==
  IF typ.kind \in {"TypedefType", "QualType"} THEN ResolveTypedef(typ.Type) ELSE typ

RECURSIVE removeParen(_)
removeParen(n) == IF n.kind = "ParenExpr" THEN removeParen(n.X) ELSE n

RECURSIVE isStringLiteral(_)
isStringLiteral(expr) ==
  CASE expr.kind = "BasicLit" -> expr.Kind = "STRING"
    [] expr.kind = "BinaryExpr" ->
         IF expr.Op = "+" THEN isStringLiteral(expr.X) /\ isStringLiteral(expr.Y) ELSE FALSE
    [] expr.kind = "ParenExpr" -> isStringLiteral(expr.X)
    [] OTHER -> FALSE

\* ExprToString, for the type expressions compileTypeCast compares it with:
\* the expression as go/printer writes it, a literal as its text, which for a
\* string literal includes the quotes.
ExprToString(t) ==
  CASE t.kind = "Ident" -> t.Name
    [] t.kind = "BasicLit" -> t.Value
    [] t.kind = "ArrayType" -> IF t.Elt.kind = "Ident" THEN "[]" \o t.Elt.Name ELSE "[]?"
    [] OTHER -> "?"

\* strconv.ParseInt(s, 10, 8) on the literals of the generated inputs: the
\* texts made of decimal digits are read in base 10, any other text (a
\* prefixed or separated integer, a float, a quoted string) is a syntax
\* error, and a value that does not fit in 8 bits is a range error.
IntLits == ("0" :> 0) @@ ("1" :> 1) @@ ("127" :> 127) @@ ("128" :> 128) @@ ("300" :> 300)
errSyntax == "strconv.ParseInt: invalid syntax"
errRange == "strconv.ParseInt: value out of range"
ParseInt8(s) ==
  IF s \notin DOMAIN IntLits THEN [v |-> 0, err |-> errSyntax]
  ELSE IF IntLits[s] > 127 THEN [v |-> 127, err |-> errRange]
  ELSE [v |-> IntLits[s], err |-> ""]

(***************************************************************************)
(* compileCtx (evalcompile.go:26-33) and the results of the compile steps: *)
(* [ctx, err], where ctx is the context as the step left it (Go mutates    *)
(* the context in place, so a failed step keeps what it appended).         *)
(***************************************************************************)
NewCtx(flags) == [ops |-> <<>>, allowCalls |-> TRUE, curCall |-> 0, flags |-> flags, firstCall |-> TRUE]
ZeroCtx == [ops |-> <<>>, allowCalls |-> FALSE, curCall |-> 0, flags |-> 0, firstCall |-> FALSE]

Ok(ctx) == [ctx |-> ctx, err |-> ""]
Fail(ctx, e) == [ctx |-> ctx, err |-> e]

pushOp(ctx, op) == [ctx EXCEPT !.ops = Append(@, op)]
\* Assignment to the Target field of the Jump at Go index i (a *Jump in the list).
setTarget(ctx, i, target) == [ctx EXCEPT !.ops[i + 1].Target = target]

RECURSIVE compileAST(_, _)
RECURSIVE compileSpecialCall(_, _, _, _)
RECURSIVE compileGetDebugPinner(_)
RECURSIVE compilePinningLoop(_, _)
RECURSIVE compileAllocLiteralString(_)
RECURSIVE compileTypeCastOrFuncCall(_, _)
RECURSIVE compileTypeCast(_, _, _)
RECURSIVE compileFunctionCall(_, _)
RECURSIVE compileFunctionCallOld(_, _, _)
RECURSIVE compileFunctionCallNew(_, _, _)
RECURSIVE compileBinaryExpr(_, _)
RECURSIVE compileSelectorExpr(_, _)
RECURSIVE compileCompositeLit(_, _)

\* `if err != nil { return err }` on the result r of a step, then pushOp(op).
thenPush(r, op) == IF r.err # "" THEN r ELSE Ok(pushOp(r.ctx, op))
\* jmp.Target = len(ctx.ops), for the Jump at Go index i.
\* Variant of patchJump that leaves the jump pointing at itself.
patchJumpSelf(ctx, i) == setTarget(ctx, i, i)
patchJump(ctx, i) == setTarget(ctx, i, Len(ctx.ops))

RECURSIVE pushSpecialArgs(_, _, _, _)
\* The loop of compileSpecialCall over args (a nil op is NoOp).
pushSpecialArgs(ctx, id, args, i) ==
  IF i > Len(args) THEN ctx
  ELSE LET c1 == IF args[i].op # "nil" THEN pushOp(ctx, args[i]) ELSE ctx
       IN pushSpecialArgs(pushOp(c1, CallInjectionCopyArg(id, i - 1)), id, args, i + 1)

\* The end of compileSpecialCall: the pinning loop, when doPinning.
compileSpecialCallEnd(ctx, id, pin) == IF pin THEN compilePinningLoop(ctx, id) ELSE ctx

\* compileSpecialCallFrom mutant: the call id is not advanced.
compileSpecialCallFromSameId(c0, fnname, args, pin) ==
  LET id == c0.curCall
      c1 == pushOp(c0, CallInjectionStartSpecial(id, fnname))
      c2 == pushOp(c1, CallInjectionSetTarget(id))
      c3 == pushSpecialArgs(c2, id, args, 1)
  IN compileSpecialCallEnd(pushOp(c3, CallInjectionComplete(id, pin)), id, pin)

\* compileSpecialCall from `id := ctx.curCall` on: c0 is the context that
\* compileGetDebugPinner left, pin is doPinning && ctx.flags.HasDebugPinner().
compileSpecialCallFrom(c0, fnname, args, pin) ==
  LET id == c0.curCall
      c1 == pushOp([c0 EXCEPT !.curCall = @ + 1], CallInjectionStartSpecial(id, fnname))
      c2 == pushOp(c1, CallInjectionSetTarget(id))
      c3 == pushSpecialArgs(c2, id, args, 1)
  IN compileSpecialCallEnd(pushOp(c3, CallInjectionComplete(id, pin)), id, pin)

compileSpecialCall(ctx, fnname, args, doPinning) ==
  compileSpecialCallFrom(IF doPinning THEN compileGetDebugPinner(ctx) ELSE ctx,
                         fnname, args, doPinning /\ HasFlag(ctx.flags, HasDebugPinner))

\* compileGetDebugPinner mutant: the flag test is inverted.
compileGetDebugPinnerInverted(ctx) ==
  IF ctx.firstCall /\ ~HasFlag(ctx.flags, HasDebugPinner)
  THEN LET c1 == compileSpecialCall(ctx, DebugPinnerFunctionName, <<>>, FALSE)
           c2 == pushOp(c1, Op("SetDebugPinner"))
       IN [c2 EXCEPT !.firstCall = FALSE]
  ELSE ctx

\* compileGetDebugPinner mutant: firstCall is not cleared.
compileGetDebugPinnerAgain(ctx) ==
  IF ctx.firstCall /\ HasFlag(ctx.flags, HasDebugPinner)
  THEN pushOp(compileSpecialCall(ctx, DebugPinnerFunctionName, <<>>, FALSE), Op("SetDebugPinner"))
  ELSE ctx

compileGetDebugPinner(ctx) ==
  IF ctx.firstCall /\ HasFlag(ctx.flags, HasDebugPinner)
  THEN LET c1 == compileSpecialCall(ctx, DebugPinnerFunctionName, <<>>, FALSE)
           c2 == pushOp(c1, Op("SetDebugPinner"))
       IN [c2 EXCEPT !.firstCall = FALSE]
  ELSE ctx

compileDebugUnpin(ctx) ==
  IF ~ctx.firstCall /\ HasFlag(ctx.flags, HasDebugPinner)
  THEN LET c1 == compileSpecialCall(ctx, "runtime.(*Pinner).Unpin", <<Op("PushDebugPinner")>>, FALSE)
       IN pushOp(pushOp(pushOp(c1, Op("Pop")), Op("PushNil")), Op("SetDebugPinner"))
  ELSE ctx

\* compilePinningLoop mutant: the loop jumps back to the Complete of the Pin
\* call (loopStart + 7) instead of the start of the loop.
compilePinningLoopLate(ctx, id) ==
  LET loopStart == Len(ctx.ops)
      c1 == pushOp(ctx, Jump("JumpIfPinningDone", FALSE, 0))
      c2 == pushOp(c1, Op("PushPinAddress"))
      c3 == compileSpecialCall(c2, "runtime.(*Pinner).Pin", <<Op("PushDebugPinner"), NoOp>>, FALSE)
      c4 == pushOp(c3, Op("Pop"))
      c5 == pushOp(c4, Jump("JumpAlways", FALSE, loopStart + 7))
  IN pushOp(patchJump(c5, loopStart), CallInjectionComplete2(id))

compilePinningLoop(ctx, id) ==
  LET loopStart == Len(ctx.ops)
      c1 == pushOp(ctx, Jump("JumpIfPinningDone", FALSE, 0))
      c2 == pushOp(c1, Op("PushPinAddress"))
      c3 == compileSpecialCall(c2, "runtime.(*Pinner).Pin", <<Op("PushDebugPinner"), NoOp>>, FALSE)
      c4 == pushOp(c3, Op("Pop"))
      c5 == pushOp(c4, Jump("JumpAlways", FALSE, loopStart))
  IN pushOp(patchJump(c5, loopStart), CallInjectionComplete2(id))

\* Variant of compileAllocLiteralString that pushes nil before the length.
compileAllocLiteralStringNilFirst(ctx) ==
  LET jmp == Len(ctx.ops)
      c1 == pushOp(ctx, Jump("JumpIfAllocStringChecksFail", FALSE, 0))
      c2 == compileSpecialCall(c1, "runtime.mallocgc",
                               <<Op("PushNil"), Op("PushLen"), OpNamed("PushConst", "false")>>, TRUE)
  IN patchJump(pushOp(c2, Op("ConvertAllocToString")), jmp)

compileAllocLiteralString(ctx) ==
  LET jmp == Len(ctx.ops)
      c1 == pushOp(ctx, Jump("JumpIfAllocStringChecksFail", FALSE, 0))
      c2 == compileSpecialCall(c1, "runtime.mallocgc",
                               <<Op("PushLen"), Op("PushNil"), OpNamed("PushConst", "false")>>, TRUE)
  IN patchJump(pushOp(c2, Op("ConvertAllocToString")), jmp)

errNotImpl == "expression not implemented"
errNoSymbol == "could not find symbol value"
errOperator == "operator not supported"
errSlice3 == "3-index slice expressions not supported"
errFrameArg == "expected integer value for frame"
errArgPrefix == "error evaluating argument: "
errAmbiguousPrefix == "could not evaluate function or type: "

compileIdent(ctx, node) ==
  CASE HasLocal(node.Name) -> Ok(pushOp(ctx, OpNamed("PushLocal", node.Name)))
    [] ~HasLocal(node.Name) /\ HasGlobal("", node.Name) ->
         Ok(pushOp(ctx, OpNamed("PushPackageVar", node.Name)))
    [] ~HasLocal(node.Name) /\ ~HasGlobal("", node.Name) /\ node.Name \in {"true", "false"} ->
         Ok(pushOp(ctx, OpNamed("PushConst", node.Name)))
    [] ~HasLocal(node.Name) /\ ~HasGlobal("", node.Name) /\ node.Name = "nil" ->
         Ok(pushOp(ctx, Op("PushNil")))
    [] OTHER ->
         IF LookupRegisterName(node.Name)
         THEN Ok(pushOp(ctx, OpNamed("PushRegister", node.Name)))
         ELSE Fail(ctx, errNoSymbol)

compileUnary(ctx, expr, op) == thenPush(compileAST(ctx, expr), op)

\* compileTypeAssert after compileAST(node.X), whose result is r.
compileTypeAssertType(r, node) ==
  IF r.err # "" THEN r
  ELSE IF node.Type.kind # "Ident" \/ node.Type.Name # "data"
  THEN LET ft == FindTypeExpr(node.Type)
       IN IF ft.err # "" THEN Fail(r.ctx, ft.err)
          ELSE Ok(pushOp(r.ctx, OpNamed("TypeAssert", ft.typ.Name)))
  ELSE Ok(pushOp(r.ctx, Op("TypeAssert")))

compileTypeAssert(ctx, node) == compileTypeAssertType(compileAST(ctx, node.X), node)

\* compileBinary after compileAST(b), whose result is rb; at is the Go index
\* of sop in the op list.
compileBinaryB(rb, at, op) ==
  IF rb.err # "" THEN [ctx |-> rb.ctx, err |-> rb.err, sop |-> at]
  ELSE [ctx |-> pushOp(rb.ctx, op), err |-> "", sop |-> at]

\* compileBinary after compileAST(a), whose result is ra.
compileBinaryA(ra, b, sop, op) ==
  IF ra.err # "" THEN [ctx |-> ra.ctx, err |-> ra.err, sop |-> -1]
  ELSE compileBinaryB(compileAST(IF sop.op # "nil" THEN pushOp(ra.ctx, sop) ELSE ra.ctx, b),
                      Len(ra.ctx.ops), op)

\* compileBinary: the result also names the Go index of sop in the op list.
compileBinary(ctx, a, b, sop, op) == compileBinaryA(compileAST(ctx, a), b, sop, op)

\* compileReslice after node.High, whose result is rh (that of node.X when
\* there is no High).
compileResliceLow(rh, node) ==
  IF rh.err # "" THEN rh
  ELSE thenPush(IF node.Low.kind # "nil" THEN compileAST(rh.ctx, node.Low)
                ELSE Ok(pushOp(rh.ctx, OpNamed("PushConst", "0"))),
                [Op("Reslice") EXCEPT !.HasHigh = node.High.kind # "nil"])

\* compileReslice after compileAST(node.X), whose result is rx.
compileResliceHigh(rx, node) ==
  IF rx.err # "" THEN rx
  ELSE compileResliceLow(IF node.High.kind # "nil" THEN compileAST(rx.ctx, node.High) ELSE rx, node)

compileReslice(ctx, node) == compileResliceHigh(compileAST(ctx, node.X), node)

RECURSIVE compileBuiltinArgs(_, _, _)
compileBuiltinArgs(ctx, args, i) ==
  IF i > Len(args) THEN Ok(ctx)
  ELSE LET r == compileAST(ctx, args[i])
       IN IF r.err # "" THEN r ELSE compileBuiltinArgs(r.ctx, args, i + 1)

compileBuiltinCall(ctx, builtin, args) ==
  thenPush(compileBuiltinArgs(ctx, args, 1), [OpNamed("BuiltinCall", builtin) EXCEPT !.N = Len(args)])

\* shortCircuit mutant: the jump conditions of && and || are swapped.
shortCircuitSwapped(tok) ==
  CASE tok = "&&" -> Jump("JumpIfTrue", FALSE, 0)
    [] tok = "||" -> Jump("JumpIfFalse", FALSE, 0)
    [] OTHER -> NoOp

\* The Jump sop of the BinaryExpr case: nil (NoOp) unless the operator is a
\* logical one.
shortCircuit(tok) ==
  CASE tok = "&&" -> Jump("JumpIfFalse", FALSE, 0)
    [] tok = "||" -> Jump("JumpIfTrue", FALSE, 0)
    [] OTHER -> NoOp

\* compileBinaryExprEnd mutant: the jump is patched after BoolToConst is appended.
compileBinaryExprEndLate(r, sop) ==
  IF r.err # "" THEN Fail(r.ctx, r.err)
  ELSE IF sop.op # "nil" THEN Ok(patchJump(pushOp(r.ctx, Op("BoolToConst")), r.sop))
  ELSE Ok(r.ctx)

\* The BinaryExpr case after compileBinary, whose result is r.
compileBinaryExprEnd(r, sop) ==
  IF r.err # "" THEN Fail(r.ctx, r.err)
  ELSE IF sop.op # "nil" THEN Ok(pushOp(patchJump(r.ctx, r.sop), Op("BoolToConst")))
  ELSE Ok(r.ctx)

\* The BinaryExpr case of compileAST.
compileBinaryExpr(ctx, node) ==
  IF node.Op \in {"++", "--", "<-"} THEN Fail(ctx, errOperator)
  ELSE compileBinaryExprEnd(
         compileBinary(ctx, node.X, node.Y, shortCircuit(node.Op), OpNamed("Binary", node.Op)),
         shortCircuit(node.Op))

\* The SelectorExpr case of compileAST.
compileSelectorExpr(ctx, node) ==
  LET x == node.X
      sel == OpNamed("Select", node.Sel)
  IN CASE x.kind = "Ident" ->
            (CASE x.Name = "runtime" /\ node.Sel = "curg" -> Ok(pushOp(ctx, Op("PushCurg")))
               [] x.Name = "runtime" /\ node.Sel = "frameoff" -> Ok(pushOp(ctx, Op("PushFrameoff")))
               [] x.Name = "runtime" /\ node.Sel = "threadid" -> Ok(pushOp(ctx, Op("PushThreadID")))
               [] OTHER ->
                    IF HasLocal(x.Name)
                    THEN Ok(pushOp(pushOp(ctx, OpNamed("PushLocal", x.Name)), sel))
                    ELSE IF HasGlobal(x.Name, node.Sel)
                    THEN Ok(pushOp(ctx, OpNamed("PushPackageVar", x.Name \o "." \o node.Sel)))
                    ELSE compileUnary(ctx, x, sel))
       [] x.kind = "CallExpr" ->
            IF x.Fun.kind = "SelectorExpr" /\ x.Fun.X.kind = "Ident"
               /\ x.Fun.X.Name = "runtime" /\ x.Fun.Sel = "frame"
            THEN IF x.Args[1].kind = "BasicLit"
                 THEN LET fr == ParseInt8(x.Args[1].Value)
                      IN IF fr.err # "" THEN Fail(ctx, fr.err)
                         ELSE Ok(pushOp(ctx, [OpNamed("PushLocal", node.Sel) EXCEPT !.N = fr.v]))
                 ELSE Fail(ctx, errFrameArg)
            ELSE compileUnary(ctx, x, sel)
       [] x.kind = "BasicLit" ->
            IF Unquote(x.Value).err # "" THEN Fail(ctx, Unquote(x.Value).err)
            ELSE IF HasGlobal(Unquote(x.Value).v, node.Sel)
            THEN Ok(pushOp(ctx, OpNamed("PushPackageVar", Unquote(x.Value).v \o "." \o node.Sel)))
            ELSE compileUnary(ctx, x, sel)
       [] OTHER -> compileUnary(ctx, x, sel)

RECURSIVE compileElts(_, _, _, _)
\* The loop over node.Elts of the CompositeLit case: the error of lowering an
\* element is not looked at.
compileElts(ctx, typ, elts, i) ==
  IF i > Len(elts) THEN ctx
  ELSE LET elt == elts[i]
           rhe == IF elt.kind = "KeyValueExpr" THEN elt.Value ELSE elt
           r == compileAST(ctx, rhe)
           field == IF elt.kind = "KeyValueExpr" THEN elt.Key.Name ELSE typ.Field[i]
           c1 == pushOp(pushOp(pushOp(r.ctx, Op("Dup")), OpNamed("Select", field)), Op("SetValue"))
       IN compileElts(c1, typ, elts, i + 1)

\* The CompositeLit case of compileAST.
compileCompositeLit(ctx, node) ==
  IF ~HasFlag(ctx.flags, HasDebugPinner) THEN Fail(ctx, errNotImpl)
  ELSE
    LET ft == FindTypeExpr(node.Type)
    IN IF ft.err # "" THEN Fail(ctx, ft.err)
       ELSE
         LET typ == ResolveTypedef(ft.typ)
         IN IF typ.kind # "StructType" THEN Fail(ctx, errNotImpl)
            ELSE IF ~ctx.allowCalls THEN Fail(ctx, errFuncCallNotAllowedLitAlloc)
            ELSE
              LET c1 == compileSpecialCall(ctx, "runtime.mallocgc",
                          <<OpNamed("PushConst", "1"), OpNamed("PushRuntimeType", ft.typ.Name),
                            OpNamed("PushConst", "true")>>, TRUE)
                  c2 == pushOp(c1, OpNamed("TypeCast", "*" \o ft.typ.Name))
                  c3 == pushOp(c2, Op("PointerDeref"))
              IN Ok(compileElts(c3, typ, node.Elts, 1))

\* The error compileBinary returned, without the index of sop.
dropSop(r) == [ctx |-> r.ctx, err |-> r.err]

compileAST(ctx, t) ==
  CASE t.kind = "CallExpr" -> compileTypeCastOrFuncCall(ctx, t)
    [] t.kind = "Ident" -> compileIdent(ctx, t)
    [] t.kind = "ParenExpr" -> compileAST(ctx, t.X)
    [] t.kind = "SelectorExpr" -> compileSelectorExpr(ctx, t)
    [] t.kind = "TypeAssertExpr" -> compileTypeAssert(ctx, t)
    [] t.kind = "IndexExpr" -> dropSop(compileBinary(ctx, t.X, t.Index, NoOp, Op("Index")))
    [] t.kind = "SliceExpr" ->
         IF t.Slice3 THEN Fail(ctx, errSlice3) ELSE compileReslice(ctx, t)
    [] t.kind = "StarExpr" -> compileUnary(ctx, t.X, Op("PointerDeref"))
    [] t.kind = "UnaryExpr" ->
         IF t.Op = "&" THEN compileUnary(ctx, t.X, Op("AddrOf"))
         ELSE compileUnary(ctx, t.X, OpNamed("Unary", t.Op))
    [] t.kind = "BinaryExpr" -> compileBinaryExpr(ctx, t)
    [] t.kind = "BasicLit" -> Ok(pushOp(ctx, OpNamed("PushConst", t.Value)))
    [] t.kind = "CompositeLit" -> compileCompositeLit(ctx, t)
    [] OTHER -> Fail(ctx, errNotImpl)

\* compileTypeCast after compileAST(node.Args[0]), whose result is r.
compileTypeCastTo(r, node, ambiguousErr) ==
  IF r.err # "" THEN r
  ELSE
    LET fnnode == removeParen(node.Fun)
        targetTypeStr == ExprToString(fnnode)
        ft == FindTypeExpr(fnnode)
    IN IF ft.err = "" THEN Ok(pushOp(r.ctx, OpNamed("TypeCast", targetTypeStr)))
       ELSE IF targetTypeStr \in {"[]byte", "[]uint8", "[]int32", "[]rune"}
       THEN Ok(pushOp(r.ctx, OpNamed("TypeCast", targetTypeStr)))
       ELSE IF ambiguousErr # "" /\ ft.err = ErrTypeNotFound
       THEN Fail(r.ctx, errAmbiguousPrefix \o ambiguousErr)
       ELSE Fail(r.ctx, ft.err)

compileTypeCast(ctx, node, ambiguousErr) ==
  compileTypeCastTo(compileAST(ctx, node.Args[1]), node, ambiguousErr)

RECURSIVE removeParenStar(_)
\* The loop of compileTypeCastOrFuncCall that strips parentheses and stars.
removeParenStar(n) ==
  LET m == removeParen(n)
  IN IF m.kind = "StarExpr" THEN removeParenStar(m.X) ELSE m

\* Variant of castOrCall that does not look for a local.
castOrCallNoLocal(node, n) ==
  CASE n.kind = "BasicLit" -> [how |-> "cast", amb |-> ""]
    [] n.kind \in {"ArrayType", "StructType", "FuncType", "InterfaceType", "MapType", "ChanType"} ->
         [how |-> "cast", amb |-> ""]
    [] n.kind = "SelectorExpr" ->
         IF n.X.kind = "Ident"
         THEN IF FindTypeExpr(n).err = "" THEN [how |-> "cast", amb |-> ""]
              ELSE LET r0 == compileAST(ZeroCtx, node.Fun)
                   IN IF r0.err = "" THEN [how |-> "call", amb |-> ""]
                      ELSE [how |-> "cast", amb |-> r0.err]
         ELSE [how |-> "call", amb |-> ""]
    [] n.kind = "Ident" ->
         IF HasBuiltin(n.Name) THEN [how |-> "call", amb |-> ""]
         ELSE IF HasGlobal("", n.Name) THEN [how |-> "call", amb |-> ""]
         ELSE [how |-> "cast", amb |-> errNoSymbol]
    [] n.kind = "IndexExpr" ->
         IF n.X.kind \in {"Ident", "SelectorExpr"} THEN [how |-> "castOrCall", amb |-> ""]
         ELSE [how |-> "call", amb |-> ""]
    [] n.kind = "IndexListExpr" -> [how |-> "cast", amb |-> ""]
    [] OTHER -> [how |-> "call", amb |-> ""]

\* The branch compileTypeCastOrFuncCall takes for a call with one argument
\* whose stripped function expression is n: "call" (compileFunctionCall),
\* "cast" (compileTypeCast, with the ambiguity error amb), or "castOrCall"
\* (the IndexExpr case: compileTypeCast, then compileFunctionCall when the
\* type was not found).
castOrCall(node, n) ==
  CASE n.kind = "BasicLit" -> [how |-> "cast", amb |-> ""]
    [] n.kind \in {"ArrayType", "StructType", "FuncType", "InterfaceType", "MapType", "ChanType"} ->
         [how |-> "cast", amb |-> ""]
    [] n.kind = "SelectorExpr" ->
         IF n.X.kind = "Ident"
         THEN IF FindTypeExpr(n).err = "" THEN [how |-> "cast", amb |-> ""]
              ELSE LET r0 == compileAST(ZeroCtx, node.Fun)
                   IN IF r0.err = "" THEN [how |-> "call", amb |-> ""]
                      ELSE [how |-> "cast", amb |-> r0.err]
         ELSE [how |-> "call", amb |-> ""]
    [] n.kind = "Ident" ->
         IF HasBuiltin(n.Name) THEN [how |-> "call", amb |-> ""]
         ELSE IF HasGlobal("", n.Name) \/ HasLocal(n.Name) THEN [how |-> "call", amb |-> ""]
         ELSE [how |-> "cast", amb |-> errNoSymbol]
    [] n.kind = "IndexExpr" ->
         IF n.X.kind \in {"Ident", "SelectorExpr"} THEN [how |-> "castOrCall", amb |-> ""]
         ELSE [how |-> "call", amb |-> ""]
    [] n.kind = "IndexListExpr" -> [how |-> "cast", amb |-> ""]
    [] OTHER -> [how |-> "call", amb |-> ""]

\* The IndexExpr case after compileTypeCast, whose result is r.
callUnlessCast(r, node) ==
  IF r.err = "" \/ r.err # ErrTypeNotFound THEN r ELSE compileFunctionCall(r.ctx, node)

\* compileTypeCastOrFuncCall once the branch b is known.
compileCastOrCall(ctx, node, b) ==
  CASE b.how = "call" -> compileFunctionCall(ctx, node)
    [] b.how = "cast" -> compileTypeCast(ctx, node, b.amb)
    [] OTHER -> callUnlessCast(compileTypeCast(ctx, node, ""), node)

compileTypeCastOrFuncCall(ctx, node) ==
  IF Len(node.Args) # 1 THEN compileFunctionCall(ctx, node)
  ELSE compileCastOrCall(ctx, node, castOrCall(node, removeParenStar(node.Fun)))

\* Variant of compileFunctionCall that does not look at allowCalls.
compileFunctionCallAlways(ctx, node) ==
  IF node.Fun.kind = "Ident" /\ HasBuiltin(node.Fun.Name)
  THEN compileBuiltinCall(ctx, node.Fun.Name, node.Args)
  ELSE IF HasFlag(ctx.flags, HasDebugPinner)
  THEN compileFunctionCallNew([ctx EXCEPT !.curCall = @ + 1], node, ctx.curCall)
  ELSE compileFunctionCallOld([ctx EXCEPT !.curCall = @ + 1], node, ctx.curCall)

compileFunctionCall(ctx, node) ==
  IF node.Fun.kind = "Ident" /\ HasBuiltin(node.Fun.Name)
  THEN compileBuiltinCall(ctx, node.Fun.Name, node.Args)
  ELSE IF ~ctx.allowCalls THEN Fail(ctx, ErrFuncCallNotAllowed)
  ELSE IF HasFlag(ctx.flags, HasDebugPinner)
  THEN compileFunctionCallNew([ctx EXCEPT !.curCall = @ + 1], node, ctx.curCall)
  ELSE compileFunctionCallOld([ctx EXCEPT !.curCall = @ + 1], node, ctx.curCall)

\* Variant of allocIfStringLiteral that recognises only a bare literal.
allocIfBasicLit(ctx, arg) ==
  IF arg.kind = "BasicLit" /\ arg.Kind = "STRING" THEN compileAllocLiteralString(ctx) ELSE ctx

\* The string-literal allocation that follows the lowering of an argument.
allocIfStringLiteral(ctx, arg) ==
  IF isStringLiteral(arg) THEN compileAllocLiteralString(ctx) ELSE ctx

RECURSIVE compileArgsOldFromOne(_, _, _, _)
\* Variant of compileArgsOld that numbers the arguments from 1.
compileArgsOldFromOne(ctx, node, id, i) ==
  IF i > Len(node.Args) THEN Ok(ctx)
  ELSE LET r == compileAST(ctx, node.Args[i])
       IN IF r.err # "" THEN Fail(r.ctx, errArgPrefix \o r.err)
          ELSE compileArgsOldFromOne(pushOp(allocIfStringLiteral(r.ctx, node.Args[i]),
                                            CallInjectionCopyArg(id, i)), node, id, i + 1)

RECURSIVE compileArgsOld(_, _, _, _)
\* The loop of compileFunctionCallOld over node.Args.
compileArgsOld(ctx, node, id, i) ==
  IF i > Len(node.Args) THEN Ok(ctx)
  ELSE LET r == compileAST(ctx, node.Args[i])
       IN IF r.err # "" THEN Fail(r.ctx, errArgPrefix \o r.err)
          ELSE compileArgsOld(pushOp(allocIfStringLiteral(r.ctx, node.Args[i]),
                                     CallInjectionCopyArg(id, i - 1)), node, id, i + 1)

\* compileFunctionCallOld after the second compileAST(node.Fun), whose result
\* is r5; jmpif is the Go index of the Jump (pushed only when hasFunc).
compileFunctionCallOldArgs(r5, node, id, hasFunc, jmpif) ==
  IF r5.err # "" THEN r5
  ELSE thenPush(compileArgsOld(pushOp(IF hasFunc THEN patchJump(r5.ctx, jmpif) ELSE r5.ctx,
                                      CallInjectionSetTarget(id)), node, id, 1),
                CallInjectionComplete(id, FALSE))

\* compileFunctionCallOld from the push of CallInjectionStart on: c1 is the
\* context with the ops of the speculation kept (hasFunc) or dropped.
compileFunctionCallOldStart(c1, node, id, hasFunc) ==
  LET c2 == pushOp(c1, CallInjectionStart(hasFunc, id))
      c3 == IF hasFunc THEN pushOp(c2, Jump("JumpIfFalse", TRUE, 0)) ELSE c2
  IN compileFunctionCallOldArgs(compileAST(pushOp(c3, Op("Pop")), node.Fun), node, id, hasFunc,
                                Len(c1.ops) + 1)

\* Variant of compileFunctionCallOldFun that keeps the ops of a failed
\* speculation.
compileFunctionCallOldFunKeep(r0, node, id, oldAllowCalls, oldOps) ==
  IF r0.err # "" /\ r0.err # ErrFuncCallNotAllowed
  THEN Fail([r0.ctx EXCEPT !.allowCalls = oldAllowCalls, !.ops = oldOps], r0.err)
  ELSE compileFunctionCallOldStart([r0.ctx EXCEPT !.allowCalls = oldAllowCalls], node, id, r0.err = "")

\* compileFunctionCallOld after the speculative compileAST(node.Fun) without
\* calls, whose result is r0.
compileFunctionCallOldFun(r0, node, id, oldAllowCalls, oldOps) ==
  IF r0.err # "" /\ r0.err # ErrFuncCallNotAllowed
  THEN Fail([r0.ctx EXCEPT !.allowCalls = oldAllowCalls, !.ops = oldOps], r0.err)
  ELSE IF r0.err = ""
  THEN compileFunctionCallOldStart([r0.ctx EXCEPT !.allowCalls = oldAllowCalls], node, id, TRUE)
  ELSE compileFunctionCallOldStart([r0.ctx EXCEPT !.allowCalls = oldAllowCalls, !.ops = oldOps],
                                   node, id, FALSE)

compileFunctionCallOld(ctx, node, id) ==
  compileFunctionCallOldFun(compileAST([ctx EXCEPT !.allowCalls = FALSE], node.Fun), node, id,
                            ctx.allowCalls, ctx.ops)

\* One iteration of the first loop of compileFunctionCallNew after
\* compileAST(arg), whose result is r: the allocation comes before the look
\* at the error.
compileArgNew(r, arg) ==
  [ctx |-> allocIfStringLiteral(r.ctx, arg),
   err |-> IF r.err # "" THEN errArgPrefix \o r.err ELSE ""]

RECURSIVE compileArgsNew(_, _, _)
\* The first loop of compileFunctionCallNew over node.Args.
compileArgsNew(ctx, node, i) ==
  IF i > Len(node.Args) THEN Ok(ctx)
  ELSE LET r == compileArgNew(compileAST(ctx, node.Args[i]), node.Args[i])
       IN IF r.err # "" THEN r ELSE compileArgsNew(r.ctx, node, i + 1)

RECURSIVE copyArgsNewSkip0(_, _, _)
\* copyArgsNew mutant: the loop stops before argument 0.
copyArgsNewSkip0(ctx, id, i) ==
  IF i <= 1 THEN ctx
  ELSE copyArgsNewSkip0(pushOp(ctx, CallInjectionCopyArg(id, i - 1)), id, i - 1)

RECURSIVE copyArgsNewAscending(_, _, _)
\* Variant of copyArgsNew that copies the arguments 0 up to i-1.
copyArgsNewAscending(ctx, id, i) ==
  IF i < 1 THEN ctx
  ELSE pushOp(copyArgsNewAscending(ctx, id, i - 1), CallInjectionCopyArg(id, i - 1))

RECURSIVE copyArgsNew(_, _, _)
\* The second loop of compileFunctionCallNew: argument numbers i-1 down to 0.
copyArgsNew(ctx, id, i) ==
  IF i < 1 THEN ctx
  ELSE copyArgsNew(pushOp(ctx, CallInjectionCopyArg(id, i - 1)), id, i - 1)

\* compileFunctionCallNew after the first loop, whose result is r2.
compileFunctionCallNewCall(r2, node, id) ==
  IF r2.err # "" THEN r2
  ELSE
    LET c3 == pushOp(r2.ctx, [Op("Roll") EXCEPT !.N = Len(node.Args)])
        c4 == pushOp(c3, CallInjectionStart(TRUE, id))
        c5 == pushOp(c4, Op("Pop"))
        c6 == pushOp(c5, CallInjectionSetTarget(id))
        c7 == copyArgsNew(c6, id, Len(node.Args))
        c8 == pushOp(c7, CallInjectionComplete(id, TRUE))
    IN Ok(compilePinningLoop(c8, id))

\* compileFunctionCallNew after compileAST(node.Fun), whose result is r1.
compileFunctionCallNewArgs(r1, node, id) ==
  IF r1.err # "" THEN r1
  ELSE compileFunctionCallNewCall(compileArgsNew(r1.ctx, node, 1), node, id)

\* Variant of compileFunctionCallNew that emits the start opcode before the
\* function expression and the arguments are lowered.
compileFunctionCallNewStartFirst(ctx, node, id) ==
  compileFunctionCallNewArgs(
    compileAST(pushOp(compileGetDebugPinner(ctx), CallInjectionStart(TRUE, id)), node.Fun),
    node, id)

compileFunctionCallNew(ctx, node, id) ==
  compileFunctionCallNewArgs(compileAST(compileGetDebugPinner(ctx), node.Fun), node, id)

(***************************************************************************)
(* The entry points.  Parsing is not modelled: CompileAST is given the     *)
(* AST, CompileSet the ASTs of its two sides.  The result is [ops, err]    *)
(* and the depth table of depthCheck.                                      *)
(***************************************************************************)
\* The return of an entry point after depthCheck, whose result is dc.
checked(ctx, dc) == [ops |-> ctx.ops, err |-> dc.err, depth |-> dc.depth]
failed(e) == [ops |-> <<>>, err |-> e, depth |-> <<>>]
verified(ctx, endDepth) == checked(ctx, depthCheck(ctx.ops, endDepth))

\* CompileAST after compileAST, whose result is r.
CompileASTEnd(r) ==
  IF r.err # "" THEN failed(r.err) ELSE verified(compileDebugUnpin(r.ctx), 1)

CompileAST(t, flags) == CompileASTEnd(compileAST(NewCtx(flags), t))

\* CompileSet after compileAST(lhe), whose result is r2.
CompileSetEnd(r2) ==
  IF r2.err # "" THEN failed(r2.err) ELSE verified(pushOp(r2.ctx, Op("SetValue")), 0)

\* CompileSet after compileAST(rhe), whose result is r.
CompileSetLhe(r, lhe, rhe) ==
  IF r.err # "" THEN failed(r.err)
  ELSE CompileSetEnd(compileAST(allocIfStringLiteral(r.ctx, rhe), lhe))

\* Variant of CompileSet that lowers the left side first.
CompileSetLeftFirst(lhe, rhe, flags) ==
  CompileSetEnd(compileAST(allocIfStringLiteral(compileAST(NewCtx(flags), lhe).ctx, rhe), rhe))

CompileSet(lhe, rhe, flags) == CompileSetLhe(compileAST(NewCtx(flags), rhe), lhe, rhe)

(***************************************************************************)
(* Compile (evalcompile.go:68-81) takes the text of the expression.  A     *)
(* text is a sequence of one-byte characters over TextChars; ParseExpr is  *)
(* go/parser.ParseExpr on such texts: identifiers are runs of letters, the *)
(* only operators are == and =, blanks separate tokens.  Its result is the *)
(* AST, or the first error of the scanner.ErrorList with its byte offset.  *)
(***************************************************************************)
Letters == {"x", "y"}
TextChars == Letters \cup {"=", " "}
errExpectedEql == "expected '==', found '='"
errExpectedOperand == "expected operand"
errExpectedEOF == "expected 'EOF'"

RECURSIVE skipBlanks(_, _)
\* The first position from i on (1-based) that holds no blank, Len+1 at the end.
skipBlanks(text, i) ==
  IF i <= Len(text) /\ text[i] = " " THEN skipBlanks(text, i + 1) ELSE i

RECURSIVE identEnd(_, _)
\* The position after the identifier that starts at i.
identEnd(text, i) ==
  IF i <= Len(text) /\ text[i] \in Letters THEN identEnd(text, i + 1) ELSE i

RECURSIVE identName(_, _, _)
\* The characters i..j-1 as one string.
identName(text, i, j) == IF i >= j THEN "" ELSE text[i] \o identName(text, i + 1, j)

parseOk(x, next) == [x |-> x, err |-> "", off |-> 0, next |-> next]
parseFail(e, pos) == [x |-> NoExpr, err |-> e, off |-> pos - 1, next |-> pos]

\* parseOperand at position i (blanks skipped): an identifier, or the error
\* "expected operand" at the offset of the token found.
parseOperand(text, i) ==
  IF i <= Len(text) /\ text[i] \in Letters
  THEN parseOk(Ident(identName(text, i, identEnd(text, i))), skipBlanks(text, identEnd(text, i)))
  ELSE parseFail(errExpectedOperand, i)

RECURSIVE parseBinaryExpr(_, _, _)
\* The right operand y of an == whose left operand is x, then the rest.
parseBinaryRhs(text, x, y) ==
  IF y.err # "" THEN y ELSE parseBinaryExpr(text, BinaryExpr(x, "==", y.x), y.next)

\* The loop of parseBinaryExpr after the operand x, at position i: the
\* operator == goes on, a lone = is reported as "expected '==', found '='"
\* at its offset, the end of the text ends the expression, and anything else
\* is found where ParseExpr expects the end.
parseBinaryExpr(text, x, i) ==
  IF i > Len(text) THEN parseOk(x, i)
  ELSE IF text[i] = "=" /\ i < Len(text) /\ text[i + 1] = "="
  THEN parseBinaryRhs(text, x, parseOperand(text, skipBlanks(text, i + 2)))
  ELSE IF text[i] = "=" THEN parseFail(errExpectedEql, i)
  ELSE parseFail(errExpectedEOF, i)

\* ParseExpr after the first operand, whose result is p.
parseRhs(text, p) == IF p.err # "" THEN p ELSE parseBinaryExpr(text, p.x, p.next)

ParseExpr(text) == parseRhs(text, parseOperand(text, skipBlanks(text, 1)))

isAssignment(p) ==
  IF p.err = errExpectedEql THEN [eqOff |-> p.off, isAs |-> TRUE] ELSE [eqOff |-> 0, isAs |-> FALSE]

\* CompileSet from its texts: after the two ParseExpr, whose results are l, r.
CompileSetParsed(l, r, flags) ==
  IF l.err # "" THEN failed(l.err)
  ELSE IF r.err # "" THEN failed(r.err)
  ELSE CompileSet(l.x, r.x, flags)

CompileSetText(lhexpr, rhexpr, flags) ==
  CompileSetParsed(ParseExpr(lhexpr), ParseExpr(rhexpr), flags)

\* Compile mutant: the text is split as expr[:eqOff], expr[eqOff:].
CompileParsedKeepEq(p, expr, flags) ==
  IF p.err # ""
  THEN IF HasFlag(flags, CanSet) /\ isAssignment(p).isAs
       THEN CompileSetText(SubSeq(expr, 1, isAssignment(p).eqOff),
                           SubSeq(expr, isAssignment(p).eqOff + 1, Len(expr)), flags)
       ELSE failed(p.err)
  ELSE CompileAST(p.x, flags)

\* Compile after ParseExpr, whose result is p.  expr[:eqOff] is
\* SubSeq(expr, 1, eqOff) and expr[eqOff+1:] is SubSeq(expr, eqOff + 2, len).
CompileParsed(p, expr, flags) ==
  IF p.err # ""
  THEN IF HasFlag(flags, CanSet) /\ isAssignment(p).isAs
       THEN CompileSetText(SubSeq(expr, 1, isAssignment(p).eqOff),
                           SubSeq(expr, isAssignment(p).eqOff + 2, Len(expr)), flags)
       ELSE failed(p.err)
  ELSE CompileAST(p.x, flags)

Compile(expr, flags) == CompileParsed(ParseExpr(expr), expr, flags)

(***************************************************************************)
(* The inputs of the model: expressions over the scope above.              *)
(***************************************************************************)
SeqsUpTo(S, n) == UNION {[1..k -> S] : k \in 0..n}

StrLit == BasicLit("STRING", "\"s\"")
BoolAtoms == {Ident("a"), Ident("b")}
Logic1 == {BinaryExpr(x, op, y) : x \in BoolAtoms, op \in {"&&", "||"}, y \in BoolAtoms}
Logic2 == {BinaryExpr(l, op, Ident("b")) : l \in Logic1, op \in {"&&", "||"}}
            \cup {BinaryExpr(Ident("a"), op, l) : l \in Logic1, op \in {"&&", "||"}}
LogicExprs == BoolAtoms \cup Logic1 \cup Logic2

ArgExprs == {Ident("x"), StrLit, Ident("nosuch"), CallExpr(Ident("g"), <<>>)}
FunExprs == {Ident("f"), SelectorExpr(Ident("x"), "m"), CallExpr(Ident("g"), <<>>)}
CallExprs == {CallExpr(fn, args) : fn \in FunExprs, args \in SeqsUpTo(ArgExprs, MaxArgs)}

EltExprs == {Ident("x"), Ident("nosuch"), KeyValueExpr(Ident("q"), StrLit),
             BinaryExpr(Ident("a"), "&&", Ident("nosuch")),
             BinaryExpr(Ident("x"), "+", Ident("nosuch")),
             CallExpr(Ident("f"), <<>>)}
StructLits == {CompositeLit(Ident(tn), elts) : tn \in {"T", "TT"}, elts \in SeqsUpTo(EltExprs, MaxElts)}
                \cup {CompositeLit(Ident("int"), <<>>),
                      CompositeLit(Ident("T"), <<Ident("nosuch"), Ident("nosuch")>>)}

OtherExprs == {StrLit, BinaryExpr(StrLit, "+", StrLit), BinaryExpr(Ident("x"), "+", BasicLit("INT", "1")),
               CallExpr(Ident("f"), <<CompositeLit(Ident("T"), <<Ident("x")>>)>>),
               CallExpr(Ident("f"), <<BinaryExpr(Ident("a"), "&&", Ident("b"))>>),
               CallExpr(Ident("int"), <<Ident("x")>>),
               CallExpr(Ident("len"), <<Ident("x")>>),
               SelectorExpr(CallExpr(Ident("f"), <<StrLit>>), "m"),
               IndexExpr(Ident("x"), CallExpr(Ident("g"), <<>>)),
               ParenExpr(CallExpr(Ident("f"), <<ParenExpr(StrLit)>>)),
               CallExpr(Ident("f"), <<BinaryExpr(StrLit, "+", StrLit)>>),
               CallExpr(IndexExpr(Ident("x"), CallExpr(Ident("g"), <<>>)), <<>>),
               CallExpr(Ident("f"), <<Ident("x"), CallExpr(IndexExpr(Ident("x"), CallExpr(Ident("g"), <<>>)), <<>>)>>),
               CallExpr(Ident("nosuch"), <<>>),
               CallExpr(CallExpr(Ident("f"), <<StrLit>>), <<>>)}

\* Calls that are, or could be taken for, type casts.
CastExprs == {CallExpr(Ident("x"), <<Ident("y")>>),
              CallExpr(ParenExpr(StarExpr(Ident("f"))), <<Ident("x")>>),
              CallExpr(ParenExpr(Ident("int")), <<Ident("x")>>),
              CallExpr(Ident("nosuch"), <<Ident("x")>>),
              CallExpr(Ident("int"), <<CallExpr(Ident("g"), <<>>)>>),
              CallExpr(Ident("int"), <<Ident("nosuch")>>),
              CallExpr(BasicLit("STRING", "\"T\""), <<Ident("x")>>),
              CallExpr(BasicLit("STRING", "\"U\""), <<Ident("x")>>),
              CallExpr(BasicLit("STRING", "\"[]byte\""), <<Ident("x")>>),
              CallExpr(ArrayType(Ident("byte")), <<Ident("x")>>),
              CallExpr(Ident("int"), <<>>),
              CallExpr(Ident("int"), <<Ident("x"), Ident("y")>>),
              CallExpr(Ident("len"), <<>>)}

\* Constructs the compiler does not support, alone and as operands.
ThreeIndexSlice == SliceExpr(Ident("x"), BasicLit("INT", "0"), BasicLit("INT", "1"), TRUE)
UnsupportedExprs ==
  {ThreeIndexSlice, SliceExpr(Ident("nosuch"), NoExpr, BasicLit("INT", "1"), TRUE),
   SliceExpr(Ident("x"), NoExpr, BasicLit("INT", "1"), FALSE),
   BinaryExpr(Ident("a"), "&&", BinaryExpr(Ident("x"), "<-", Ident("y"))),
   CallExpr(Ident("f"), <<ThreeIndexSlice>>),
   CallExpr(Ident("len"), <<CompositeLit(Ident("IntSlice"), <<>>)>>),
   CallExpr(Ident("int"), <<BinaryExpr(Ident("x"), "++", Ident("y"))>>),
   SelectorExpr(ThreeIndexSlice, "m"),
   CompositeLit(Ident("IntSlice"), <<Ident("x")>>),
   CompositeLit(Ident("nosuch"), <<>>),
   CompositeLit(Ident("T"), <<BinaryExpr(Ident("x"), "+", ThreeIndexSlice)>>),
   CompositeLit(Ident("T"), <<KeyValueExpr(Ident("q"), BinaryExpr(Ident("x"), "+", ThreeIndexSlice))>>)}
    \cup {BinaryExpr(Ident("x"), op, Ident("y")) : op \in {"++", "--", "<-"}}
    \cup {CompositeLit(Ident(tn), <<>>) : tn \in {"IntSlice", "StrMap", "Arr", "TS"}}

\* Selectors of a local of another frame, runtime.frame(N).x, and
\* selectors that only look like one.
FrameCall(arg) == CallExpr(SelectorExpr(Ident("runtime"), "frame"), <<arg>>)
FrameLits == {"0", "1", "127", "128", "300", "0x7f", "1_0"}
FrameExprs == {SelectorExpr(FrameCall(BasicLit("INT", v)), "x") : v \in FrameLits}
                \cup {SelectorExpr(FrameCall(BasicLit("INT", "1")), "nosuch"),
                      SelectorExpr(FrameCall(BasicLit("FLOAT", "1.5")), "x"),
                      SelectorExpr(FrameCall(BasicLit("STRING", "\"1\"")), "x"),
                      SelectorExpr(BasicLit("STRING", "\"main\""), "v"),
                      SelectorExpr(BasicLit("STRING", "\"s\""), "v"),
                      SelectorExpr(BasicLit("INT", "1"), "v"),
                      SelectorExpr(FrameCall(Ident("x")), "x"),
                      SelectorExpr(CallExpr(Ident("f"), <<BasicLit("INT", "1")>>), "x")}

Exprs == LogicExprs \cup CallExprs \cup StructLits \cup OtherExprs \cup CastExprs
           \cup UnsupportedExprs \cup FrameExprs

LhsExprs == {Ident("x"), SelectorExpr(Ident("x"), "m"), Ident("nosuch"),
             SelectorExpr(CallExpr(Ident("f"), <<>>), "m")}
RhsExprs == {Ident("y"), StrLit, BinaryExpr(Ident("a"), "&&", Ident("b")),
             CallExpr(Ident("f"), <<>>), CallExpr(Ident("f"), <<StrLit>>),
             CompositeLit(Ident("T"), <<Ident("x")>>), Ident("nosuch")}

FlagSets == {0, HasDebugPinner, CanSet + HasDebugPinner}

Inputs == {[entry |-> "CompileAST", t |-> t, flags |-> fl] : t \in Exprs, fl \in FlagSets}
            \cup {[entry |-> "CompileSet", lhe |-> l, rhe |-> r, flags |-> fl] :
                    l \in LhsExprs, r \in RhsExprs, fl \in FlagSets}

(***************************************************************************)
(* The state machine: one compilation, then one execution of the program   *)
(* it returned.  The executor is the consumer of the op list; it is        *)
(* modelled as far as control flow, the stack and call injection opcodes   *)
(* go.  A condition it takes from the stopped program is a choice.         *)
(***************************************************************************)
CallIds(os) == {os[i].id : i \in 1..Len(os)} \ {-1}

Init ==
  /\ src \in Inputs
  /\ phase = "input"
  /\ ops = <<>>
  /\ err = ""
  /\ depthTab = <<>>
  /\ pc = 0
  /\ stack = <<>>
  /\ lastpc = -1
  /\ executed = {}
  /\ nstart = <<>>
  /\ ncomplete = <<>>
  /\ pinIter = 0
  /\ env = [n \in BoolLocals |-> "?"]
  /\ it = NoIter
  /\ trace = <<>>
  /\ user = NoUser
  /\ last = NoCall
  /\ inflight = NoInflight

Compiled(r) ==
  /\ ops' = r.ops
  /\ err' = r.err
  /\ depthTab' = r.depth
  /\ phase' = IF r.err = "" THEN "exec" ELSE "done"
  /\ nstart' = [i \in CallIds(r.ops) |-> 0]
  /\ ncomplete' = [i \in CallIds(r.ops) |-> 0]
  /\ UNCHANGED <<src, pc, stack, lastpc, executed, pinIter, env, it, trace, user, last, inflight>>

DoCompileAST ==
  /\ phase = "input"
  /\ src.entry = "CompileAST"
  /\ Compiled(CompileAST(src.t, src.flags))

DoCompileSet ==
  /\ phase = "input"
  /\ src.entry = "CompileSet"
  /\ Compiled(CompileSet(src.lhe, src.rhe, src.flags))

Top(st) == st[Len(st)]
PopN(st, n) == SubSeq(st, 1, Len(st) - n)
BoolVal(b) == IF b THEN "T" ELSE "F"

\* The value a Binary op leaves, on the values the model tracks.
BinaryVal(op, x, y) ==
  IF x \notin {"T", "F"} \/ y \notin {"T", "F"} THEN "v"
  ELSE CASE op = "&&" -> BoolVal(x = "T" /\ y = "T")
         [] op = "||" -> BoolVal(x = "T" \/ y = "T")
         [] OTHER -> "v"

Executed(o, newpc, newstack) ==
  /\ pc' = newpc
  /\ stack' = newstack
  /\ lastpc' = pc
  /\ executed' = executed \cup {pc}
  /\ nstart' = IF o.op \in {"CallInjectionStart", "CallInjectionStartSpecial"}
               THEN [nstart EXCEPT ![o.id] = @ + 1] ELSE nstart
  /\ ncomplete' = IF o.op = "CallInjectionComplete"
                  THEN [ncomplete EXCEPT ![o.id] = @ + 1] ELSE ncomplete
  /\ UNCHANGED <<src, phase, ops, err, depthTab, it, trace, user, last, inflight>>

\* A Jump: the condition is read from the top of the stack (JumpIfTrue,
\* JumpIfFalse) or decided by the executor.
StepJump ==
  /\ phase = "exec"
  /\ pc < Len(ops)
  /\ ops[pc + 1].op = "Jump"
  /\ LET o == ops[pc + 1]
         st == IF o.Pop THEN PopN(stack, 1) ELSE stack
     IN \E taken \in BOOLEAN :
          /\ CASE o.When = "JumpAlways" -> taken
               [] o.When \in {"JumpIfTrue", "JumpIfFalse"} ->
                    IF Top(stack) \in {"T", "F"}
                    THEN taken = (Top(stack) = BoolVal(o.When = "JumpIfTrue"))
                    ELSE TRUE
               [] o.When = "JumpIfPinningDone" -> taken \/ pinIter < MaxPinIter
               [] OTHER -> TRUE
          /\ pinIter' = IF o.When = "JumpIfPinningDone" /\ ~taken THEN pinIter + 1 ELSE pinIter
          /\ Executed(o, IF taken THEN o.Target ELSE pc + 1, st)
          /\ UNCHANGED env

\* A read of a boolean local: its value is chosen at the first read.
StepLocal ==
  /\ phase = "exec"
  /\ pc < Len(ops)
  /\ ops[pc + 1].op = "PushLocal"
  /\ ops[pc + 1].Name \in BoolLocals
  /\ LET o == ops[pc + 1]
     IN \E v \in {"T", "F"} :
          /\ env[o.Name] \in {"?", v}
          /\ env' = [env EXCEPT ![o.Name] = v]
          /\ Executed(o, pc + 1, Append(stack, v))
          /\ UNCHANGED pinIter

\* Every other op.
StepOp ==
  /\ phase = "exec"
  /\ pc < Len(ops)
  /\ LET o == ops[pc + 1]
         n == Len(stack)
     IN /\ o.op # "Jump"
        /\ ~(o.op = "PushLocal" /\ o.Name \in BoolLocals)
        /\ Executed(o, pc + 1,
             CASE o.op = "PushConst" /\ o.Name \in {"true", "false"} ->
                    Append(stack, BoolVal(o.Name = "true"))
               [] o.op = "Binary" ->
                    Append(PopN(stack, 2), BinaryVal(o.Name, stack[n - 1], stack[n]))
               [] o.op = "BoolToConst" -> stack
               [] o.op = "Dup" -> Append(stack, stack[n])
               [] o.op = "Roll" ->
                    Append(SubSeq(stack, 1, n - o.N - 1) \o SubSeq(stack, n - o.N + 1, n),
                           stack[n - o.N])
               [] OTHER ->
                    PopN(stack, Arity(o)[1]) \o [k \in 1..Arity(o)[2] |-> "v"])
        /\ UNCHANGED <<pinIter, env>>

Finish ==
  /\ phase = "exec"
  /\ pc = Len(ops)
  /\ phase' = "done"
  /\ UNCHANGED <<src, ops, err, depthTab, pc, stack, lastpc, executed, nstart, ncomplete, pinIter, env, it, trace, user, last, inflight>>

Next == DoCompileAST \/ DoCompileSet \/ StepJump \/ StepLocal \/ StepOp \/ Finish

Spec == Init /\ [][Next]_vars

(***************************************************************************)
(* depthCheck on its own: the op lists of up to MaxOps ops over a small    *)
(* alphabet, with every Jump target an index of the depth table.           *)
(***************************************************************************)
DCAlphabet == {Op("PushConst"), Op("Pop"), Op("Binary"),
               CallInjectionStartSpecial(0, "runtime.mallocgc"),
               CallInjectionComplete(0, TRUE)}
                \cup {Jump("JumpIfFalse", p, t) : p \in BOOLEAN, t \in 0..MaxOps}
DCPrograms == {os \in SeqsUpTo(DCAlphabet, MaxOps) :
                 \A i \in 1..Len(os) : os[i].op = "Jump" => os[i].Target <= Len(os)}
DCInputs == {[entry |-> "depthCheck", ops |-> os, endDepth |-> e] : os \in DCPrograms, e \in 0..1}

InitDC ==
  /\ src \in DCInputs
  /\ phase = "input"
  /\ ops = <<>>
  /\ err = ""
  /\ depthTab = <<>>
  /\ pc = 0
  /\ stack = <<>>
  /\ lastpc = -1
  /\ executed = {}
  /\ nstart = <<>>
  /\ ncomplete = <<>>
  /\ pinIter = 0
  /\ env = [n \in BoolLocals |-> "?"]
  /\ it = NoIter
  /\ trace = <<>>
  /\ user = NoUser
  /\ last = NoCall
  /\ inflight = NoInflight

DoDepthCheck ==
  /\ phase = "input"
  /\ src.entry = "depthCheck"
  /\ LET dc == depthCheck(src.ops, src.endDepth)
     IN /\ ops' = src.ops
        /\ err' = dc.err
        /\ depthTab' = dc.depth
  /\ phase' = "done"
  /\ UNCHANGED <<src, pc, stack, lastpc, executed, nstart, ncomplete, pinIter, env, it, trace, user, last, inflight>>

\* The largest stack of the abstract execution.
MaxDepth == 6
\* The stack after an op of arity ar: ar[1] values popped, ar[2] pushed.
AbstractApply(st, ar) == SubSeq(st, 1, Len(st) - ar[1]) \o [k \in 1..ar[2] |-> "v"]
\* Where control goes after the op at Go index i: the next instruction, or
\* the target of a Jump.
Successors(os, i) == {i + 1} \cup (IF os[i + 1].op = "Jump" THEN {os[i + 1].Target} ELSE {})
\* One step of the abstract execution of an accepted op list: the op at pc
\* pops and pushes as its arity says; an op that finds too few values
\* stops the execution in phase "underflow".
AbstractStep ==
  /\ phase = "done"
  /\ src.entry = "depthCheck"
  /\ err = ""
  /\ pc < Len(ops)
  /\ IF Len(stack) < Arity(ops[pc + 1])[1]
     THEN /\ phase' = "underflow"
          /\ UNCHANGED <<pc, stack, lastpc>>
     ELSE /\ stack' = AbstractApply(stack, Arity(ops[pc + 1]))
          /\ Len(stack') <= MaxDepth
          /\ pc' \in Successors(ops, pc)
          /\ lastpc' = pc
          /\ UNCHANGED phase
  /\ UNCHANGED <<src, ops, err, depthTab, executed, nstart, ncomplete, pinIter, env, it, trace, user, last, inflight>>

NextDC == DoDepthCheck \/ AbstractStep

SpecDC == InitDC /\ [][NextDC]_vars

(***************************************************************************)
(* Properties.                                                             *)
(***************************************************************************)
InternalErrors == {errUnderflow, errJumpTarget, errPinning, errEndDepth}
Returned == phase # "input" /\ src.entry \in {"CompileAST", "CompileSet"}
EndDepthOf(entry) == IF entry = "CompileSet" THEN 0 ELSE 1
HasKind(os, k) == \E i \in 1..Len(os) : os[i].op = k

\* C1: whenever lowering returned no error (so depthCheck ran), the verifier
\* accepts: no internal debugger error is returned, every index 0..len(ops)
\* has a non-negative depth and the depth at the end is 1 (CompileAST) or 0
\* (CompileSet).
C1_VerifierNeverRejects ==
  (Returned /\ depthTab # <<>>) =>
     /\ err \notin InternalErrors
     /\ \A i \in 0..Len(ops) : depthTab[i] >= 0
     /\ depthTab[Len(ops)] = EndDepthOf(src.entry)

RECURSIVE NetPushed(_, _, _)
\* What the ops lo..hi of os push less what they pop.
NetPushed(os, lo, hi) ==
  IF hi < lo THEN 0
  ELSE IF lo = hi THEN Arity(os[lo])[2] - Arity(os[lo])[1]
  ELSE NetPushed(os, lo, (lo + hi) \div 2) + NetPushed(os, (lo + hi) \div 2 + 1, hi)
\* The depth before Go index i when every op before it falls through.
FallDepth(os, i) == NetPushed(os, 1, i)

NoUnderflow(os) == \A i \in 0..Len(os) - 1 : FallDepth(os, i) >= Arity(os[i + 1])[1]
EdgesAgree(os) ==
  \A i \in 0..Len(os) - 1 :
     os[i + 1].op = "Jump" => FallDepth(os, os[i + 1].Target) = FallDepth(os, i + 1)
EndsAt(os, endDepth) == FallDepth(os, Len(os)) = endDepth
PinnerSeenFirst(os) ==
  \A i \in 1..Len(os) :
     (os[i].op = "CallInjectionComplete" /\ os[i].DoPinning) =>
        \E j \in 1..i - 1 : os[j].op = "CallInjectionStartSpecial"

Checked == phase = "done" /\ src.entry = "depthCheck"
\* An entry point has lowered its input and called depthCheck(endDepth) on
\* the op list, which it returns with the result of depthCheck.
DepthChecked == Returned /\ lastpc = -1 /\ depthTab # <<>>

\* C2: depthCheck(endDepth) accepts the op list an entry point hands it if
\* and only if (1) at every index the depth before it is at least the number
\* of values the op pops, (2) the target of every Jump receives from the Jump
\* the depth it receives by fall-through and (3) the depth at len(ops) is
\* endDepth; in every other case it returns an error, one of its own.
C2_AcceptsIffThree ==
  DepthChecked =>
     /\ err = "" <=> (/\ NoUnderflow(ops)
                      /\ EdgesAgree(ops)
                      /\ EndsAt(ops, EndDepthOf(src.entry)))
     /\ err \in InternalErrors \cup {""}

\* C2 witness: depthCheck has rejected an op list with a Jump that falls
\* short of one of the three conditions only by the depths at the target of
\* the Jump.
C2_Witness ==
  /\ DepthChecked
  /\ err = errJumpTarget
  /\ HasKind(ops, "Jump")
  /\ NoUnderflow(ops)
  /\ ~EdgesAgree(ops)

\* C2 witness of acceptance: depthCheck has accepted an op list with a Jump
\* and a pinning Complete.
C2_WitnessAccepted ==
  /\ DepthChecked
  /\ err = ""
  /\ HasKind(ops, "Jump")
  /\ \E i \in 1..Len(ops) : ops[i].op = "CallInjectionComplete" /\ ops[i].DoPinning

\* On op lists at large depthCheck has a fourth condition, which no list of
\* an entry point fails: for every list of DCPrograms it accepts exactly
\* when (1), (2), (3) hold and no CallInjectionComplete with DoPinning comes
\* before the first CallInjectionStartSpecial.
DepthCheckAcceptsIffFour ==
  Checked => /\ err = "" <=> (/\ NoUnderflow(ops)
                              /\ EdgesAgree(ops)
                              /\ EndsAt(ops, src.endDepth)
                              /\ PinnerSeenFirst(ops))
             /\ err \in InternalErrors \cup {""}

\* Every op list an entry point hands to depthCheck has its pinning
\* Completes after a CallInjectionStartSpecial.
CompiledPinnerSeenFirst == DepthChecked => PinnerSeenFirst(ops)

IsStart(o) == o.op \in {"CallInjectionStart", "CallInjectionStartSpecial"}
IsAcquire(o) == o.op = "CallInjectionStartSpecial" /\ o.Name = DebugPinnerFunctionName
IsPinningComplete(o) == o.op = "CallInjectionComplete" /\ o.DoPinning
\* The indices (of the TLA+ sequence) of the ops of kind k that carry call id.
WithId(os, k, id) == {i \in 1..Len(os) : os[i].op = k /\ os[i].id = id}
StartsOf(os, id) == {i \in 1..Len(os) : IsStart(os[i]) /\ os[i].id = id}
\* The state an entry point returned in.  The op list does not change while
\* it is executed, so a property of the list is stated for this state.
JustReturned == Returned /\ ops # <<>> /\ lastpc = -1
Running == Returned /\ phase \in {"exec", "done"}
JustCompleted == Running /\ lastpc >= 0 /\ ops[lastpc + 1].op = "CallInjectionComplete"

\* C3 as stated: on every execution path, when a CallInjectionComplete{id}
\* has just executed, exactly one start opcode with that id has executed
\* before it on the path.
C3_OneStartBeforeComplete ==
  JustCompleted => nstart[ops[lastpc + 1].id] = 1

\* C3 amended: on every execution path, each execution of a
\* CallInjectionComplete{id} is preceded by exactly one execution of a start
\* opcode with that id since the previous execution of
\* CallInjectionComplete{id} (since the beginning, for the first): starts and
\* completes of one id alternate, once per iteration of a pinning loop.
C3_StartsCompletesAlternate ==
  Running =>
    /\ \A id \in DOMAIN ncomplete : nstart[id] - ncomplete[id] \in {0, 1}
    /\ JustCompleted => LET id == ops[lastpc + 1].id
                        IN ncomplete[id] >= 1 /\ nstart[id] = ncomplete[id]

\* C3 witness: the Complete of a Pin call executed in the second iteration
\* of a pinning loop.
C3_Witness ==
  /\ JustCompleted
  /\ ncomplete[ops[lastpc + 1].id] = 2
  /\ pinIter = 2

\* C4: in every returned op list each call id is carried by exactly one
\* start opcode and exactly one CallInjectionComplete.
C4_CallIdsUnique ==
  JustReturned =>
     \A id \in CallIds(ops) :
        /\ Cardinality(StartsOf(ops, id)) = 1
        /\ Cardinality(WithId(ops, "CallInjectionComplete", id)) = 1

\* C4 witness: a legacy program whose speculation was rolled back (HasFunc
\* is false), with a nested call and a string allocation.
C4_Witness ==
  /\ Returned
  /\ err = ""
  /\ \E i \in 1..Len(ops) : ops[i].op = "CallInjectionStart" /\ ~ops[i].HasFunc
  /\ \E i \in 1..Len(ops) : ops[i].op = "CallInjectionStartSpecial"
  /\ Cardinality(CallIds(ops)) >= 3

\* The ordering of the ops of one call id.
CallSequenceOrdered(os, id) ==
  LET S == StartsOf(os, id)
      T == WithId(os, "CallInjectionSetTarget", id)
      A == WithId(os, "CallInjectionCopyArg", id)
      C == WithId(os, "CallInjectionComplete", id)
      D == WithId(os, "CallInjectionComplete2", id)
  IN /\ Cardinality(S) = 1 /\ Cardinality(T) = 1 /\ Cardinality(C) = 1
     /\ \A s \in S, t \in T, c \in C :
          /\ s < t /\ t < c
          /\ \A a \in A : t < a /\ a < c
          /\ {os[a].ArgNum : a \in A} = 0..(Cardinality(A) - 1)
          /\ \A a, b \in A : a # b => os[a].ArgNum # os[b].ArgNum
          /\ \/ \A a, b \in A : a < b => os[a].ArgNum < os[b].ArgNum
             \/ \A a, b \in A : a < b => os[a].ArgNum > os[b].ArgNum
          /\ Cardinality(D) = IF os[c].DoPinning THEN 1 ELSE 0
          /\ \A d \in D :
               /\ c + 1 < d
               /\ os[c + 1].op = "Jump" /\ os[c + 1].When = "JumpIfPinningDone"
               /\ os[c + 1].Target = d - 1
               /\ os[d - 1].op = "Jump" /\ os[d - 1].When = "JumpAlways"
               /\ os[d - 1].Target = c

\* C5: for every call id of a returned op list the ops carrying it are, in
\* program order: one start, one SetTarget, one CopyArg per argument number
\* 0..n-1 (ascending or descending), one Complete, and exactly when that
\* Complete has DoPinning one Complete2 right after the pinning loop; the
\* outermost call copies as many arguments as the call expression has.
C5_CallSequenceOrder ==
  JustReturned =>
     /\ \A id \in CallIds(ops) : CallSequenceOrdered(ops, id)
     /\ (src.entry = "CompileAST" /\ src.t \in CallExprs) =>
           Cardinality(WithId(ops, "CallInjectionCopyArg", 0)) = Len(src.t.Args)

\* C5 witness: a pinner-mode call with two arguments copied in descending
\* order.
C5_Witness ==
  /\ Returned
  /\ err = ""
  /\ \E i \in 1..Len(ops) - 1 :
        /\ ops[i].op = "CallInjectionCopyArg" /\ ops[i].ArgNum = 1
        /\ ops[i + 1].op = "CallInjectionCopyArg" /\ ops[i + 1].ArgNum = 0
        /\ ops[i + 1].id = ops[i].id
        /\ \E c \in WithId(ops, "CallInjectionComplete", ops[i].id) : ops[c].DoPinning

\* C6: every CallInjectionComplete with DoPinning sits at a higher index than
\* a CallInjectionStartSpecial for runtime.debugPinner, and without
\* HasDebugPinner no CallInjectionComplete has DoPinning.
C6_PinningAfterAcquire ==
  JustReturned =>
     /\ \A i \in 1..Len(ops) :
          IsPinningComplete(ops[i]) => \E j \in 1..i - 1 : IsAcquire(ops[j])
     /\ ~HasFlag(src.flags, HasDebugPinner) =>
          \A i \in 1..Len(ops) : ~IsPinningComplete(ops[i])

\* C6 witness: an accepted program with a pinning Complete.
C6_Witness ==
  /\ Returned
  /\ err = ""
  /\ \E i \in 1..Len(ops) : IsPinningComplete(ops[i])

\* The release sequence as the last ops of the list.
ReleaseAtEnd(os) ==
  /\ Len(os) >= 8
  /\ LET n == Len(os)
     IN /\ os[n - 7].op = "CallInjectionStartSpecial" /\ os[n - 7].Name = "runtime.(*Pinner).Unpin"
        /\ os[n - 6].op = "CallInjectionSetTarget"
        /\ os[n - 5].op = "PushDebugPinner"
        /\ os[n - 4].op = "CallInjectionCopyArg"
        /\ os[n - 3].op = "CallInjectionComplete"
        /\ os[n - 2].op = "Pop"
        /\ os[n - 1].op = "PushNil"
        /\ os[n].op = "SetDebugPinner"
Acquired(os) == \E i \in 1..Len(os) : IsAcquire(os[i])

\* C7: the pinner release sequence ends a returned program if and only if
\* a pinner acquisition was emitted in it, for CompileAST and for CompileSet.
C7_ReleaseIffAcquired ==
  (Returned /\ ops # <<>>) => (ReleaseAtEnd(ops) <=> Acquired(ops))

\* C8: a returned program holds at most one acquisition (StartSpecial for
\* runtime.debugPinner, then its SetTarget, its Complete without pinning and
\* SetDebugPinner); it is there exactly when HasDebugPinner is set and some
\* other call injection was compiled, and it comes before every other start.
C8_AcquireOnceFirst ==
  JustReturned =>
     LET acq == {i \in 1..Len(ops) : IsAcquire(ops[i])}
         others == {i \in 1..Len(ops) : IsStart(ops[i]) /\ ~IsAcquire(ops[i])}
     IN /\ Cardinality(acq) <= 1
        /\ \A i \in acq :
             /\ i + 3 <= Len(ops)
             /\ ops[i + 1] = CallInjectionSetTarget(ops[i].id)
             /\ ops[i + 2] = CallInjectionComplete(ops[i].id, FALSE)
             /\ ops[i + 3].op = "SetDebugPinner"
        /\ (acq # {}) <=> (HasFlag(src.flags, HasDebugPinner) /\ others # {})
        /\ \A i \in acq, j \in others : i < j

\* C8 witness: an accepted pinner-mode program with an acquisition and
\* function call, string allocation and Pin call injections after it.
C8_Witness ==
  /\ Returned
  /\ err = ""
  /\ Acquired(ops)
  /\ HasKind(ops, "CallInjectionStart")
  /\ HasKind(ops, "ConvertAllocToString")
  /\ Cardinality(CallIds(ops)) >= 5

RECURSIVE EvalBool(_, _)
\* The truth value of a logical expression over the boolean locals.
EvalBool(t, e) ==
  CASE t.kind = "Ident" -> e[t.Name] = "T"
    [] t.kind = "BinaryExpr" /\ t.Op = "&&" -> EvalBool(t.X, e) /\ EvalBool(t.Y, e)
    [] t.kind = "BinaryExpr" /\ t.Op = "||" -> EvalBool(t.X, e) \/ EvalBool(t.Y, e)
    [] OTHER -> FALSE

RECURSIVE NumOps(_)
\* The number of ops a logical expression over locals lowers to.
NumOps(t) == IF t.kind = "BinaryExpr" THEN NumOps(t.X) + NumOps(t.Y) + 3 ELSE 1

\* The Go indices of the ops of the right operand of a top-level && or ||.
RightOperandOps(t) == (NumOps(t.X) + 1)..(NumOps(t.X) + NumOps(t.Y))
LeftDecides(t, e) == IF t.Op = "&&" THEN ~EvalBool(t.X, e) ELSE EvalBool(t.X, e)
\* The assignments of the boolean locals that agree with the values read.
Completions == {e \in [BoolLocals -> {"T", "F"}] : \A n \in BoolLocals : env[n] \in {"?", e[n]}}
LogicRun == Running /\ src.entry = "CompileAST" /\ src.t \in Logic1 \cup Logic2

\* C9: the program of A && B (A || B) over boolean operands ends with
\* exactly one value on the stack, the logical AND (OR) of A and B, whatever
\* the values of the locals, and B's ops are not executed when A alone
\* decides the result.
C9_ShortCircuit ==
  LogicRun =>
     \A e \in Completions :
        /\ phase = "done" => stack = <<BoolVal(EvalBool(src.t, e))>>
        /\ LeftDecides(src.t, e) => executed \cap RightOperandOps(src.t) = {}

\* C9 witness: a finished run of a nested expression whose left operand
\* decided, with a local never read.
C9_Witness ==
  /\ LogicRun
  /\ phase = "done"
  /\ src.t \in Logic2
  /\ executed \cap RightOperandOps(src.t) = {}
  /\ \E n \in BoolLocals : env[n] = "?"

AandB == BinaryExpr(Ident("a"), "&&", Ident("b"))
AandBOps(target) ==
  <<OpNamed("PushLocal", "a"), Jump("JumpIfFalse", FALSE, target), OpNamed("PushLocal", "b"),
    OpNamed("Binary", "&&"), Op("BoolToConst")>>
AandBCompiled == JustReturned /\ src.entry = "CompileAST" /\ src.t = AandB

\* C10 as stated: a && b over locals compiles to PushLocal(a), Jump(JumpIfFalse),
\* PushLocal(b), Binary(&&), BoolToConst, the Jump targets index 5, and the
\* depth at the end is 1.
C10_JumpTargetFive ==
  AandBCompiled => (err = "" /\ ops = AandBOps(5) /\ depthTab[Len(ops)] = 1)

\* C10 amended: the same five ops, the Jump targets index 4 (BoolToConst,
\* the instruction following Binary), and the depth at the end is 1.
C10_JumpTargetFour ==
  AandBCompiled => (err = "" /\ ops = AandBOps(4) /\ depthTab[Len(ops)] = 1)

\* C10 witness: a && b compiled and run to the end.
C10_Witness ==
  /\ AandBCompiled
  /\ phase = "exec"
  /\ Len(ops) = 5

(***************************************************************************)
(* Compile on texts: one call of Compile per behaviour.                    *)
(***************************************************************************)
Texts == SeqsUpTo(TextChars, MaxText)
TextFlagSets == {0, CanSet, HasDebugPinner, CanSet + HasDebugPinner}
TextInputs == {[entry |-> "Compile", text |-> tx, flags |-> fl] : tx \in Texts, fl \in TextFlagSets}

InitText ==
  /\ src \in TextInputs
  /\ phase = "input"
  /\ ops = <<>>
  /\ err = ""
  /\ depthTab = <<>>
  /\ pc = 0
  /\ stack = <<>>
  /\ lastpc = -1
  /\ executed = {}
  /\ nstart = <<>>
  /\ ncomplete = <<>>
  /\ pinIter = 0
  /\ env = [n \in BoolLocals |-> "?"]
  /\ it = NoIter
  /\ trace = <<>>
  /\ user = NoUser
  /\ last = NoCall
  /\ inflight = NoInflight

DoCompile ==
  /\ phase = "input"
  /\ src.entry = "Compile"
  /\ Compiled(Compile(src.text, src.flags))

NextText == DoCompile

SpecText == InitText /\ [][NextText]_vars

\* The result an entry point returned, as the state holds it.
Result == [ops |-> ops, err |-> err, depth |-> depthTab]
CompileReturned == phase # "input" /\ src.entry = "Compile"
\* The offset of the first = of the text that is not part of an ==, when the
\* text before it is a well-formed expression; -1 when the text has no such =.
AssignOffset(text) ==
  IF ParseExpr(text).err = errExpectedEql THEN ParseExpr(text).off ELSE -1

\* C11: when the text fails to parse with "expected '==', found '='" at
\* offset o and CanSet is set, Compile returns what CompileSet returns for
\* text[:o] and text[o+1:]; without CanSet, or for any other parse error,
\* it returns the parse error and no program.
C11_CompileSplitsAssignment ==
  (CompileReturned /\ ParseExpr(src.text).err # "") =>
     IF AssignOffset(src.text) >= 0 /\ HasFlag(src.flags, CanSet)
     THEN /\ src.text[AssignOffset(src.text) + 1] = "="
          /\ Result = CompileSetText(SubSeq(src.text, 1, AssignOffset(src.text)),
                                     SubSeq(src.text, AssignOffset(src.text) + 2, Len(src.text)),
                                     src.flags)
     ELSE ops = <<>> /\ err = ParseExpr(src.text).err

\* C11 witness: x=y with CanSet compiled to the assignment program.
C11_Witness ==
  /\ CompileReturned
  /\ src.text = <<"x", "=", "y">>
  /\ HasFlag(src.flags, CanSet)
  /\ err = ""
  /\ ops = <<OpNamed("PushLocal", "y"), OpNamed("PushLocal", "x"), Op("SetValue")>>

\* The values of the elements of a struct composite literal.
EltValues(t) ==
  {IF t.Elts[i].kind = "KeyValueExpr" THEN t.Elts[i].Value ELSE t.Elts[i] : i \in 1..Len(t.Elts)}
\* The sub-expressions of an expression that are lowered with it: operands,
\* the function expression and the arguments of a function call, element
\* values of a struct literal.
LoweredParts(t) ==
  CASE t.kind = "CompositeLit" -> EltValues(t)
    [] t.kind = "BinaryExpr" -> {t.X, t.Y}
    [] t \in CallExprs -> {t.Fun} \cup {t.Args[i] : i \in 1..Len(t.Args)}
    [] OTHER -> {}
InputParts(s) ==
  IF s.entry = "CompileAST" THEN LoweredParts(s.t)
  ELSE {s.lhe, s.rhe} \cup LoweredParts(s.rhe)
FailsToLower(e, flags) == compileAST(NewCtx(flags), e).err # ""

\* C12: an entry point never returns an op list together with an error, and
\* returns an error whenever the lowering of a sub-expression of its input
\* (an operand, a call argument, a function expression, an element value of
\* a struct literal) fails.
C12_ErrorsAbort ==
  (Returned /\ lastpc = -1) =>
     /\ err # "" => ops = <<>>
     /\ (\E e \in InputParts(src) : FailsToLower(e, src.flags)) => err # ""

\* A call lowered by call injection: neither a type cast nor a builtin.
IsInjectedCall(t) ==
  /\ t.kind = "CallExpr"
  /\ ~(t.Fun.kind = "Ident" /\ HasBuiltin(t.Fun.Name))
  /\ \/ Len(t.Args) # 1
     \/ LET n == removeParenStar(t.Fun)
        IN CASE n.kind = "Ident" -> HasGlobal("", n.Name) \/ HasLocal(n.Name)
             [] n.kind \in {"BasicLit", "ArrayType"} -> FALSE
             [] OTHER -> TRUE

RECURSIVE LiteralArgs(_)
RECURSIVE LiteralArgsOfSeq(_, _)
LiteralArgsOfSeq(es, i) ==
  IF i > Len(es) THEN 0 ELSE LiteralArgs(es[i]) + LiteralArgsOfSeq(es, i + 1)
\* The number of arguments of injected calls in t that are string literals
\* (a literal, a parenthesised one, or a + of string literals).
LiteralArgs(t) ==
  CASE t.kind = "CallExpr" ->
         (IF IsInjectedCall(t)
          THEN Cardinality({i \in 1..Len(t.Args) : isStringLiteral(t.Args[i])}) ELSE 0)
         + LiteralArgs(t.Fun) + LiteralArgsOfSeq(t.Args, 1)
    [] t.kind = "BinaryExpr" -> LiteralArgs(t.X) + LiteralArgs(t.Y)
    [] t.kind \in {"ParenExpr", "SelectorExpr", "StarExpr", "UnaryExpr"} -> LiteralArgs(t.X)
    [] t.kind = "IndexExpr" -> LiteralArgs(t.X) + LiteralArgs(t.Index)
    [] t.kind = "CompositeLit" -> LiteralArgsOfSeq(t.Elts, 1)
    [] t.kind = "KeyValueExpr" -> LiteralArgs(t.Value)
    [] OTHER -> 0
LiteralArgsOfInput(s) ==
  IF s.entry = "CompileAST" THEN LiteralArgs(s.t) ELSE LiteralArgs(s.lhe) + LiteralArgs(s.rhe)
\* 1 when the input is an assignment whose right side is a string literal.
LiteralRhs(s) == IF s.entry = "CompileSet" /\ isStringLiteral(s.rhe) THEN 1 ELSE 0

ConvertsAt(os) == {i \in 1..Len(os) : os[i].op = "ConvertAllocToString"}
AllocGuardsAt(os) ==
  {i \in 1..Len(os) : os[i].op = "Jump" /\ os[i].When = "JumpIfAllocStringChecksFail"}
\* Every conversion has its own guard before it, whose target is the
\* instruction after the conversion (Go index i of the op at position i).
EachConvertGuarded(os) ==
  /\ Cardinality(AllocGuardsAt(os)) = Cardinality(ConvertsAt(os))
  /\ \A i \in ConvertsAt(os) : \E j \in AllocGuardsAt(os) : j < i /\ os[j].Target = i
Succeeded == JustReturned /\ err = ""

\* C13 as stated: a successfully compiled program holds one
\* ConvertAllocToString per string literal that is an argument of an injected
\* call, each behind its own Jump{JumpIfAllocStringChecksFail}, and none for
\* a string literal anywhere else.
C13_AllocOnlyForCallArgs ==
  Succeeded =>
     /\ Cardinality(ConvertsAt(ops)) = LiteralArgsOfInput(src)
     /\ EachConvertGuarded(ops)

\* C13 amended: the string literal that is the whole right side of an
\* assignment is converted too; one conversion per string-literal argument
\* of an injected call plus one for such a right side, each behind its own
\* guard, and none for any other string literal.
C13_AllocForCallArgsAndRhs ==
  Succeeded =>
     /\ Cardinality(ConvertsAt(ops)) = LiteralArgsOfInput(src) + LiteralRhs(src)
     /\ EachConvertGuarded(ops)

\* C13 witness: f("s" + "s") compiled with one conversion.
C13_Witness ==
  /\ Succeeded
  /\ src.entry = "CompileAST"
  /\ src.t = CallExpr(Ident("f"), <<BinaryExpr(StrLit, "+", StrLit)>>)
  /\ Cardinality(ConvertsAt(ops)) = 1

(***************************************************************************)
(* The map iterators (pkg/proc/mapiter.go).  The memory of the stopped     *)
(* program is the input: the map header, the buckets it points to and the  *)
(* debug-info type of a bucket.  A *Variable is a record; isnil marks the  *)
(* nil pointer.  Addresses are numbers, 0 is the null address.             *)
(***************************************************************************)
MaxB == 2          \* the B field of a classic map header is in 0..MaxB
MaxSlots == 2      \* slots of a bucket (the length of its tophash array)
MaxOverflow == 1   \* overflow buckets chained to a top-level bucket
MaxKeys == 3       \* keys stored in a classic map
MaxCap == 3        \* the bucket or group cap is in 0..MaxCap
MaxLate == 2       \* next() calls made after the first one that returned false
MaxCalls == 10     \* next() calls made on one iterator

hashTophashEmptyZero == 0
hashTophashEmptyOne == 1
hashMinTopHashGo111 == 4
hashMinTopHashGo112 == 5

(***************************************************************************)
(* The memory images given to the classic iterator.  A map is described by *)
(* its B, its growth state (none; "double": oldbuckets holds half as many  *)
(* buckets; "same": a same-size growth, oldbuckets holds as many), the set *)
(* of evacuated old buckets and the number of keys of each chain that      *)
(* holds keys.  As the runtime keeps them: the new buckets of an old       *)
(* bucket that is not evacuated are empty, an evacuated old bucket holds   *)
(* evacuation marks only, a chain fills its buckets in order.              *)
(***************************************************************************)
BucketSize == 3 * MaxSlots + 1
BucketFields == <<"tophash", "keys", "values", "overflow">>
BucketType ==
  [Field |-> BucketFields,
   Kind |-> [tophash |-> "Array", keys |-> "Array", values |-> "Array", overflow |-> "Struct"],
   Len |-> [tophash |-> MaxSlots, keys |-> MaxSlots, values |-> MaxSlots, overflow |-> 0],
   ValueSize |-> 1,
   Size |-> BucketSize]

TypeDefects == {"noTophash", "noKeys", "noValues", "noOverflow", "tophashNotArray",
                "keysNotArray", "valuesNotArray", "keysLen", "valuesLen", "zeroLen",
                "overflowNotStruct"}
\* The bucket type with one defect; "zeroSizeValues" is the type of a map
\* whose values have size zero, which is not a defect.
DefectiveType(d) ==
  CASE d = "noTophash" -> [BucketType EXCEPT !.Field = <<"keys", "values", "overflow">>]
    [] d = "noKeys" -> [BucketType EXCEPT !.Field = <<"tophash", "values", "overflow">>]
    [] d = "noValues" -> [BucketType EXCEPT !.Field = <<"tophash", "keys", "overflow">>]
    [] d = "noOverflow" -> [BucketType EXCEPT !.Field = <<"tophash", "keys", "values">>]
    [] d = "zeroLen" -> [BucketType EXCEPT !.Len.tophash = 0, !.Len.keys = 0, !.Len.values = 0]
    [] d = "tophashNotArray" -> [BucketType EXCEPT !.Kind.tophash = "Struct", !.Len.tophash = 0]
    [] d = "keysNotArray" -> [BucketType EXCEPT !.Kind.keys = "Struct", !.Len.keys = 0]
    [] d = "valuesNotArray" -> [BucketType EXCEPT !.Kind.values = "Struct", !.Len.values = 0]
    [] d = "keysLen" -> [BucketType EXCEPT !.Len.keys = MaxSlots + 1]
    [] d = "valuesLen" -> [BucketType EXCEPT !.Len.values = MaxSlots + 1]
    [] d = "overflowNotStruct" -> [BucketType EXCEPT !.Kind.overflow = "Ptr"]
    [] d = "zeroSizeValues" -> [BucketType EXCEPT !.ValueSize = 0, !.Len.values = 0]
    [] OTHER -> BucketType

NumOld(B, grow) ==
  CASE grow = "double" -> 2 ^ (B - 1)
    [] grow = "same" -> 2 ^ B
    [] OTHER -> 0
\* The old bucket the keys of new bucket i come from.
OldOf(B, grow, i) == IF grow = "double" THEN i % (2 ^ (B - 1)) ELSE i
\* The chains that hold the keys of the map.
LiveChains(B, grow, evac) ==
  {<<"new", i>> : i \in {i \in 0..(2 ^ B - 1) : grow = "none" \/ OldOf(B, grow, i) \in evac}}
    \cup {<<"old", j>> : j \in (0..(NumOld(B, grow) - 1)) \ evac}

RECURSIVE SumOver(_, _)
SumOver(f, S) == IF S = {} THEN 0 ELSE LET x == CHOOSE x \in S : TRUE IN f[x] + SumOver(f, S \ {x})
KeyCounts(chains) ==
  {kc \in [chains -> 0..MaxKeys] : SumOver(kc, chains) <= MaxKeys}
ChainCapacity == MaxSlots * (1 + MaxOverflow)
Growths(B) ==
  (IF B = 0 THEN {"none"} ELSE {"none", "double"}) \cup (IF B < MaxB THEN {"same"} ELSE {})
MapsOf(B, grow, evac) ==
  {[B |-> B, grow |-> grow, evac |-> evac, kc |-> kc, hole |-> hole, go112 |-> go112] :
     kc \in KeyCounts(LiveChains(B, grow, evac)),
     hole \in {h \in BOOLEAN : ~h \/ MaxKeys + 1 <= ChainCapacity},
     go112 \in BOOLEAN}
ClassicMaps ==
  UNION {UNION {UNION {MapsOf(B, grow, evac) : evac \in SUBSET (0..(NumOld(B, grow) - 1))} :
                  grow \in Growths(B)} : B \in 0..MaxB}

\* The layout: new bucket i and old bucket j are top-level buckets number
\* 1 + i and 1 + 2^B + j; overflow bucket n of top-level bucket t follows the
\* top-level buckets.
TopStride == 2 ^ (MaxB + 1)
BucketAddr(t, n) == BucketSize * (t + n * TopStride)
TopOf(addr) == ((addr \div BucketSize - 1) % TopStride) + 1
DepthOf(addr) == (addr \div BucketSize - 1) \div TopStride
ChainOfTop(d, t) == IF t <= 2 ^ d.B THEN <<"new", t - 1>> ELSE <<"old", t - 1 - 2 ^ d.B>>

LiveByte(d) == IF d.go112 THEN hashMinTopHashGo112 ELSE hashMinTopHashGo111
\* A deleted cell: emptyOne from Go 1.12, empty before.
HoleByte(d) == IF d.go112 THEN hashTophashEmptyOne ELSE hashTophashEmptyZero
\* evacuatedX, or evacuatedEmpty (4 from Go 1.12, 1 before).
EvacuatedByte(d) == IF ~d.hole THEN 2 ELSE IF d.go112 THEN 4 ELSE 1
\* The tophash bytes of the cells of a chain, in chain order.
CellsLen(d, c) ==
  IF c \in DOMAIN d.kc THEN d.kc[c] + (IF d.hole THEN 1 ELSE 0)
  ELSE IF c[1] = "old" THEN MaxSlots ELSE 0
CellAt(d, c, p) ==
  IF c \notin DOMAIN d.kc THEN (IF c[1] = "old" THEN EvacuatedByte(d) ELSE 0)
  ELSE IF p > CellsLen(d, c) THEN 0
  ELSE IF d.hole /\ p = 1 THEN HoleByte(d)
  ELSE LiveByte(d)
ChainBuckets(d, c) ==
  IF CellsLen(d, c) <= MaxSlots THEN 1 ELSE (CellsLen(d, c) + MaxSlots - 1) \div MaxSlots
BucketAt(d, t, n) ==
  [tophash |-> [i \in 1..MaxSlots |-> CellAt(d, ChainOfTop(d, t), n * MaxSlots + i)],
   overflow |-> IF n + 1 < ChainBuckets(d, ChainOfTop(d, t)) THEN BucketAddr(t, n + 1) ELSE 0]
HeapAddrs(d) ==
  UNION {{BucketAddr(t, n) : n \in 0..(ChainBuckets(d, ChainOfTop(d, t)) - 1)} :
           t \in 1..(2 ^ d.B + NumOld(d.B, d.grow))}
\* The bucket at the address a.
HeapAt(d, a) == BucketAt(d, TopOf(a), DepthOf(a))

NilVar == [isnil |-> TRUE, Addr |-> 0, Kind |-> "", Len |-> 0]
Var(addr, kind, len) == [isnil |-> FALSE, Addr |-> addr, Kind |-> kind, Len |-> len]

\* 1 << b and x & mask on uint64, for masks of the form 2^k - 1.  The mask
\* 2^64 - 1 (all ones, the value of 0 - 1) is written -1.
ShiftLeft1(b) == IF b < 0 \/ b >= 64 THEN 0 ELSE 2 ^ b
AllOnes == 0 - 1
AndMask(x, mask) == IF mask = AllOnes THEN x ELSE x % (mask + 1)

\* Variable.mapIterator for a map whose type has the fields of a classic
\* map: m is the memory of the stopped program.
classicIterator(m, maxNumBuckets) ==
  LET new == [impl |-> "classic", Unreadable |-> "",
              numbuckets |-> 0, oldmask |-> 0,
              buckets |-> NilVar, oldbuckets |-> NilVar,
              b |-> NilVar, bidx |-> 0,
              tophashes |-> NilVar, keys |-> NilVar, values |-> NilVar, overflow |-> NilVar,
              maxNumBuckets |-> maxNumBuckets, idx |-> 0,
              hashTophashEmptyOne |-> 0, hashMinTopHash |-> 0,
              top |-> <<>>, seen |-> <<>>]
  IN IF m.Addr = 0 THEN new
     ELSE [new EXCEPT !.numbuckets = ShiftLeft1(m.B),
                      !.oldmask = IF m.B = 0 THEN AllOnes ELSE ShiftLeft1(m.B - 1) - 1,
                      !.buckets = Var(m.buckets, "Struct", 0),
                      !.oldbuckets = Var(m.oldbuckets, "Struct", 0),
                      !.hashTophashEmptyOne =
                          IF m.go112 THEN hashTophashEmptyOne ELSE hashTophashEmptyZero,
                      !.hashMinTopHash =
                          IF m.go112 THEN hashMinTopHashGo112 ELSE hashMinTopHashGo111]

\* What key() or value() does: it panics, returns nil, returns the variable
\* at the base of the array, or the variable of the slot idx of the array.
Access(r, addr, idx) == [r |-> r, addr |-> addr, idx |-> idx]
\* v.sliceAccess(idx): nil with an error when idx is not in 0..v.Len - 1.
sliceAccess(v, idx) ==
  IF idx < 0 \/ idx >= v.Len THEN Access("nil", 0, 0) ELSE Access("slot", v.Addr, idx)

\* tophashes.sliceAccess(i).asUint() on the bucket at addr: the byte, or -1
\* when it cannot be read.
tophashAt(m, addr, i) ==
  IF <<addr, "tophash">> \in m.badFields \/ <<addr, i>> \in m.badBytes THEN 0 - 1
  ELSE IF <<addr, i>> \in DOMAIN m.poked THEN m.poked[<<addr, i>>]
  ELSE HeapAt(m.desc, addr).tophash[i + 1]

\* Variant of mapEvacuated whose range starts at hashTophashEmptyOne.
mapEvacuatedFromEmptyOne(m, iter, b) ==
  IF b.Addr = 0 THEN "true"
  ELSE IF \A i \in 1..Len(m.typ.Field) : m.typ.Field[i] # "tophash" THEN "true"
  ELSE IF sliceAccess(Var(b.Addr, m.typ.Kind["tophash"], m.typ.Len["tophash"]), 0).r = "nil"
  THEN "panic"
  ELSE LET tophash0 == tophashAt(m, b.Addr, 0)
       IN IF tophash0 < 0 THEN "true"
          ELSE IF tophash0 >= iter.hashTophashEmptyOne /\ tophash0 < iter.hashMinTopHash
          THEN "true" ELSE "false"

\* mapEvacuated: "true", "false", or "panic" when the field tophash has no
\* element 0, sliceAccess(0) returns nil and asUint dereferences it.
mapEvacuated(m, iter, b) ==
  IF b.Addr = 0 THEN "true"
  ELSE IF \A i \in 1..Len(m.typ.Field) : m.typ.Field[i] # "tophash" THEN "true"
  ELSE IF sliceAccess(Var(b.Addr, m.typ.Kind["tophash"], m.typ.Len["tophash"]), 0).r = "nil"
  THEN "panic"
  ELSE LET tophash0 == tophashAt(m, b.Addr, 0)
       IN IF tophash0 < 0 THEN "true"
          ELSE IF tophash0 > iter.hashTophashEmptyOne /\ tophash0 < iter.hashMinTopHash
          THEN "true" ELSE "false"

RECURSIVE nextTopBucketAlwaysOld(_, _, _)
\* Variant of nextTopBucket that takes the old bucket for both halves of the
\* split.
nextTopBucketAlwaysOld(m, iter, bidx) ==
  IF bidx >= iter.numbuckets THEN [b |-> NilVar, bidx |-> bidx, old |-> FALSE, panic |-> FALSE]
  ELSE LET b == Var(iter.buckets.Addr + m.typ.Size * bidx, "Struct", 0)
       IN IF iter.oldbuckets.Addr <= 0
          THEN [b |-> b, bidx |-> bidx, old |-> FALSE, panic |-> FALSE]
          ELSE LET oldbidx == AndMask(bidx, iter.oldmask)
                   oldb == Var(iter.oldbuckets.Addr + m.typ.Size * oldbidx, "Struct", 0)
               IN IF mapEvacuated(m, iter, oldb) = "panic"
                  THEN [b |-> b, bidx |-> bidx, old |-> FALSE, panic |-> TRUE]
                  ELSE IF mapEvacuated(m, iter, oldb) = "true"
                  THEN [b |-> b, bidx |-> bidx, old |-> FALSE, panic |-> FALSE]
                  ELSE [b |-> oldb, bidx |-> bidx, old |-> TRUE, panic |-> FALSE]

RECURSIVE nextTopBucket(_, _, _)
\* The loop of nextBucket over the top-level buckets, from bucket index
\* bidx: the bucket it leaves in it.b (nil: none) and the index it stopped
\* at; panic: mapEvacuated panicked on the old bucket, it.b being the new one.
nextTopBucket(m, iter, bidx) ==
  IF bidx >= iter.numbuckets THEN [b |-> NilVar, bidx |-> bidx, old |-> FALSE, panic |-> FALSE]
  ELSE LET b == Var(iter.buckets.Addr + m.typ.Size * bidx, "Struct", 0)
       IN IF iter.oldbuckets.Addr <= 0
          THEN [b |-> b, bidx |-> bidx, old |-> FALSE, panic |-> FALSE]
          ELSE LET oldbidx == AndMask(bidx, iter.oldmask)
                   oldb == Var(iter.oldbuckets.Addr + m.typ.Size * oldbidx, "Struct", 0)
               IN IF mapEvacuated(m, iter, oldb) = "panic"
                  THEN [b |-> b, bidx |-> bidx, old |-> FALSE, panic |-> TRUE]
                  ELSE IF mapEvacuated(m, iter, oldb) = "true"
                  THEN [b |-> b, bidx |-> bidx, old |-> FALSE, panic |-> FALSE]
                  ELSE IF oldbidx = bidx
                  THEN [b |-> oldb, bidx |-> bidx, old |-> TRUE, panic |-> FALSE]
                  ELSE nextTopBucket(m, iter, bidx + 1)

errFieldUnreadable == "unreadable field"
errMalformed == "malformed map type"
errMapBucketContentsNotArray == "malformed map type: keys, values or tophash of a bucket is not an array"
errMapBucketContentsInconsistentLen == "malformed map type: inconsistent array length in bucket"
errMapBucketsNotStruct == "malformed map type: buckets, oldbuckets or overflow field not a struct"
errUnreadableTophash == "unreadable tophash"

\* The overflow pointer read from the bucket at addr.
overflowAt(m, addr) ==
  IF addr \in DOMAIN m.links THEN m.links[addr] ELSE HeapAt(m.desc, addr).overflow

\* The body of the loop of nextBucket over the fields of the bucket type,
\* for a readable field f.
setBucketField(m, iter, f) ==
  CASE f = "tophash" -> [iter EXCEPT !.tophashes = Var(iter.b.Addr, m.typ.Kind[f], m.typ.Len[f])]
    [] f = "keys" -> [iter EXCEPT !.keys = Var(iter.b.Addr, m.typ.Kind[f], m.typ.Len[f])]
    [] f = "values" -> [iter EXCEPT !.values = Var(iter.b.Addr, m.typ.Kind[f], m.typ.Len[f])]
    [] f = "overflow" ->
         [iter EXCEPT !.overflow = Var(overflowAt(m, iter.b.Addr), m.typ.Kind[f], 0)]
    [] OTHER -> iter

\* The checks of nextBucket once every field was read: "true", "false", or
\* "panic" when the bucket type has no overflow field, it.overflow is nil and
\* the last check dereferences it.
bucketSanity(m, iter) ==
  IF iter.tophashes.isnil \/ iter.keys.isnil \/ iter.values.isnil
  THEN [it |-> [iter EXCEPT !.Unreadable = errMalformed], r |-> "false"]
  ELSE IF iter.tophashes.Kind # "Array" \/ iter.keys.Kind # "Array" \/ iter.values.Kind # "Array"
  THEN [it |-> [iter EXCEPT !.Unreadable = errMapBucketContentsNotArray], r |-> "false"]
  ELSE IF iter.tophashes.Len # iter.keys.Len
  THEN [it |-> [iter EXCEPT !.Unreadable = errMapBucketContentsInconsistentLen], r |-> "false"]
  ELSE IF m.typ.ValueSize > 0 /\ iter.tophashes.Len # iter.values.Len
  THEN [it |-> [iter EXCEPT !.Unreadable = errMapBucketContentsInconsistentLen], r |-> "false"]
  ELSE IF iter.overflow.isnil THEN [it |-> iter, r |-> "panic"]
  ELSE IF iter.overflow.Kind # "Struct"
  THEN [it |-> [iter EXCEPT !.Unreadable = errMapBucketsNotStruct], r |-> "false"]
  ELSE [it |-> iter, r |-> "true"]

RECURSIVE readBucketFields(_, _, _)
\* The loop of nextBucket over the fields of the bucket type, from field i.
readBucketFields(m, iter, i) ==
  IF i > Len(m.typ.Field) THEN bucketSanity(m, iter)
  ELSE IF <<iter.b.Addr, m.typ.Field[i]>> \in m.badFields
  THEN [it |-> [iter EXCEPT !.Unreadable = errFieldUnreadable], r |-> "false"]
  ELSE readBucketFields(m, setBucketField(m, iter, m.typ.Field[i]), i + 1)

\* nextBucket from the point where it.b is set: "true", "false", or "panic"
\* when the type of it.b is not a struct type, which the type assertion of
\* the loop over its fields requires.  The field seen of the
\* iterator is history: the addresses of the buckets it decoded.
decodeBucket(m, iter) ==
  IF iter.b.Addr <= 0 THEN [it |-> iter, r |-> "false"]
  ELSE IF iter.b.Kind # "Struct"
  THEN [it |-> [iter EXCEPT !.tophashes = NilVar, !.keys = NilVar,
                            !.values = NilVar, !.overflow = NilVar], r |-> "panic"]
  ELSE readBucketFields(m, [iter EXCEPT !.tophashes = NilVar, !.keys = NilVar,
                                        !.values = NilVar, !.overflow = NilVar,
                                        !.seen = Append(@, iter.b.Addr)], 1)

\* nextBucket after its loop over the top-level buckets ended with nb.  The
\* field top of the iterator is history: the top-level buckets made current,
\* each with the bucket index the loop started from.
nextBucketTop(m, iter, nb) ==
  IF nb.panic THEN [it |-> [iter EXCEPT !.b = nb.b, !.bidx = nb.bidx], r |-> "panic"]
  ELSE IF nb.b.isnil THEN [it |-> [iter EXCEPT !.b = NilVar, !.bidx = nb.bidx], r |-> "false"]
  ELSE decodeBucket(m, [iter EXCEPT !.b = nb.b, !.bidx = nb.bidx + 1,
                                    !.top = Append(@, [old |-> nb.old, bidx |-> nb.bidx,
                                                       from |-> iter.bidx])])

\* Variant of nextBucket that does not follow the overflow link.
nextBucketNoOverflow(m, iter) ==
  IF iter.maxNumBuckets > 0 /\ iter.bidx >= iter.maxNumBuckets
  THEN [it |-> [iter EXCEPT !.b = NilVar], r |-> "false"]
  ELSE nextBucketTop(m, iter, nextTopBucket(m, iter, iter.bidx))

\* Variant of nextBucket that does not look at the cap.
nextBucketUncapped(m, iter) ==
  IF ~iter.overflow.isnil /\ iter.overflow.Addr > 0
  THEN decodeBucket(m, [iter EXCEPT !.b = iter.overflow])
  ELSE nextBucketTop(m, iter, nextTopBucket(m, iter, iter.bidx))

nextBucket(m, iter) ==
  IF ~iter.overflow.isnil /\ iter.overflow.Addr > 0
  THEN decodeBucket(m, [iter EXCEPT !.b = iter.overflow])
  ELSE IF iter.maxNumBuckets > 0 /\ iter.bidx >= iter.maxNumBuckets
  THEN [it |-> [iter EXCEPT !.b = NilVar], r |-> "false"]
  ELSE nextBucketTop(m, iter, nextTopBucket(m, iter, iter.bidx))

RECURSIVE classicNext(_, _)
\* next() from the read of the tophash of slot it.idx, which gave h.
classicNextRead(m, iter, h) ==
  IF h < 0 THEN [it |-> [iter EXCEPT !.Unreadable = errUnreadableTophash], r |-> "false"]
  ELSE IF h # hashTophashEmptyZero /\ h # iter.hashTophashEmptyOne
  THEN [it |-> [iter EXCEPT !.idx = @ + 1], r |-> "true"]
  ELSE classicNext(m, [iter EXCEPT !.idx = @ + 1])

\* next() from it.tophashes.sliceAccess(it.idx): a panic when the array has
\* no element it.idx, sliceAccess returns nil and asUint dereferences it.
classicNextSlot(m, iter) ==
  IF sliceAccess(iter.tophashes, iter.idx).r = "nil" THEN [it |-> iter, r |-> "panic"]
  ELSE classicNextRead(m, iter, tophashAt(m, iter.b.Addr, iter.idx))

\* next() after nextBucket returned nb.
classicNextBucket(m, nb) ==
  IF nb.r # "true" THEN [it |-> nb.it, r |-> nb.r]
  ELSE classicNextSlot(m, [nb.it EXCEPT !.idx = 0])

\* mapIteratorClassic.next: "true", "false", or "panic" when nextBucket
\* panics or it dereferences the nil it.tophashes or a nil tophash.
classicNext(m, iter) ==
  IF iter.b.isnil THEN classicNextBucket(m, nextBucket(m, iter))
  ELSE IF iter.tophashes.isnil THEN [it |-> iter, r |-> "panic"]
  ELSE IF iter.idx >= iter.tophashes.Len THEN classicNextBucket(m, nextBucket(m, iter))
  ELSE classicNextSlot(m, iter)

EmptyMap == [B |-> 0, grow |-> "none", evac |-> {}, kc |-> <<>>, hole |-> FALSE, go112 |-> TRUE]

\* An input: the description of the map, the variant of the memory image
\* ("none": as described; a defect of the bucket type; "field", "byte": the
\* fields badFields, the tophash bytes badBytes cannot be read; "nilmap": the
\* map is nil; "nobuckets": its buckets are not allocated) and the cap.
ClassicInput(d, variant, badFields, badBytes, cap) ==
  [entry |-> "mapIteratorClassic", desc |-> d, variant |-> variant,
   badFields |-> badFields, badBytes |-> badBytes, poked |-> <<>>, links |-> <<>>,
   maxNumBuckets |-> cap]
\* The memory of the stopped program for the input s.
Memory(s) ==
  [Addr |-> IF s.variant = "nilmap" THEN 0 ELSE 1,
   B |-> s.desc.B, go112 |-> s.desc.go112,
   buckets |-> IF s.variant = "nobuckets" THEN 0 ELSE BucketAddr(1, 0),
   oldbuckets |-> IF s.desc.grow = "none" THEN 0 ELSE BucketAddr(1 + 2 ^ s.desc.B, 0),
   typ |-> DefectiveType(s.variant), desc |-> s.desc,
   badFields |-> s.badFields, badBytes |-> s.badBytes, poked |-> s.poked,
   links |-> s.links]
\* The maps that are given a defect: those without deleted cells, of a
\* producer from Go 1.12.
\* The maps whose old bucket 0 is given a first tophash byte: B = 1, growing
\* to twice the size, one key in old bucket 0; and the inputs that give it
\* every value of a byte ("poke": poked holds the bytes written over the
\* image).
MaxByte == 255
PokedMap(go112) ==
  [B |-> 1, grow |-> "double", evac |-> {}, kc |-> (<<"old", 0>> :> 1), hole |-> FALSE,
   go112 |-> go112]
PokedAddr == BucketAddr(1 + 2 ^ 1, 0)
PokedInputs ==
  {[ClassicInput(PokedMap(g), "poke", {}, {}, 0) EXCEPT !.poked = (<<PokedAddr, 0>> :> v)] :
     g \in BOOLEAN, v \in 0..MaxByte}
\* The maps whose last overflow link is written over ("cycle": links holds
\* the overflow pointers written over the image): B = 0, k keys in the chain
\* of bucket 0, the link of the last bucket of the chain pointing at a
\* bucket of the chain.
CyclicMap(k, go112) ==
  [B |-> 0, grow |-> "none", evac |-> {}, kc |-> (<<"new", 0>> :> k), hole |-> FALSE,
   go112 |-> go112]
LastOf(d) == BucketAddr(1, ChainBuckets(d, <<"new", 0>>) - 1)
CyclicInputs ==
  UNION {{[ClassicInput(CyclicMap(k, g), "cycle", {}, {}, cap) EXCEPT
             !.links = (LastOf(CyclicMap(k, g)) :> a)] :
            a \in HeapAddrs(CyclicMap(k, g)), cap \in 0..1} :
          k \in 1..MaxKeys, g \in BOOLEAN}
PlainMaps == {d \in ClassicMaps : ~d.hole /\ d.go112}
DefectFields == {"tophash", "overflow"}
ClassicInputs ==
  {ClassicInput(d, "none", {}, {}, cap) : d \in ClassicMaps, cap \in 0..MaxCap}
  \cup {ClassicInput(d, x, {}, {}, 0) : d \in PlainMaps, x \in TypeDefects \cup {"zeroSizeValues"}}
  \cup UNION {{ClassicInput(d, "field", {<<a, f>>}, {}, 0) :
                 a \in HeapAddrs(d), f \in DefectFields} : d \in PlainMaps}
  \cup UNION {{ClassicInput(d, "byte", {}, {<<a, i>>}, 0) :
                 a \in HeapAddrs(d), i \in 0..(MaxSlots - 1)} : d \in PlainMaps}
  \cup {ClassicInput(EmptyMap, "nilmap", {}, {}, 0), ClassicInput(EmptyMap, "nobuckets", {}, {}, 0)}
  \cup PokedInputs
  \cup CyclicInputs

(***************************************************************************)
(* A map iteration: the iterator is made, then next() is called until it   *)
(* has returned false 1 + MaxLate times or has panicked; after a call that *)
(* returned true, key() and value() are called.  trace holds, for each     *)
(* call, its result, the slot key() read, how key() and value() ended     *)
(* ("ok", "nil": one of them returned nil, "panic") and the Unreadable of  *)
(* the map variable after it.                                              *)
(***************************************************************************)
Falses(tr) == Cardinality({i \in 1..Len(tr) : tr[i].r = "false"})
Called(r, slot, access) ==
  /\ it' = r.it
  /\ trace' = Append(trace, [r |-> r.r, slot |-> IF r.r = "true" THEN slot ELSE <<0, 0>>,
                              access |-> IF r.r = "true" THEN access ELSE "none",
                              unreadable |-> r.it.Unreadable])
  /\ phase' = IF r.r = "panic" \/ (r.r = "true" /\ access = "panic")
                  \/ (r.r = "false" /\ Falses(trace) = MaxLate)
               THEN "done" ELSE "iter"
  /\ UNCHANGED <<src, ops, err, depthTab, pc, stack, lastpc, executed, nstart, ncomplete, pinIter, env, user, last, inflight>>

InitClassic ==
  /\ src \in ClassicInputs
  /\ phase = "input"
  /\ ops = <<>>
  /\ err = ""
  /\ depthTab = <<>>
  /\ pc = 0
  /\ stack = <<>>
  /\ lastpc = -1
  /\ executed = {}
  /\ nstart = <<>>
  /\ ncomplete = <<>>
  /\ pinIter = 0
  /\ env = [n \in BoolLocals |-> "?"]
  /\ it = NoIter
  /\ trace = <<>>
  /\ user = NoUser
  /\ last = NoCall
  /\ inflight = NoInflight

NewClassicIterator ==
  /\ phase = "input"
  /\ src.entry = "mapIteratorClassic"
  /\ it' = classicIterator(Memory(src), src.maxNumBuckets)
  /\ phase' = "iter"
  /\ UNCHANGED <<src, ops, err, depthTab, pc, stack, lastpc, executed, nstart, ncomplete, pinIter, env, trace, user, last, inflight>>

\* key(): it.keys.sliceAccess(it.idx - 1), a nil dereference when it.keys is
\* nil.
classicKey(iter) ==
  IF iter.keys.isnil THEN Access("panic", 0, 0) ELSE sliceAccess(iter.keys, iter.idx - 1)
\* value(): a nil dereference when it.values is nil or has no fieldType (it
\* is not an array); the base of the values array when the values have size
\* zero; it.values.sliceAccess(it.idx - 1) otherwise.
classicValue(m, iter) ==
  IF iter.values.isnil \/ iter.values.Kind # "Array" THEN Access("panic", 0, 0)
  ELSE IF m.typ.ValueSize <= 0 THEN Access("base", iter.values.Addr, 0)
  ELSE sliceAccess(iter.values, iter.idx - 1)
\* key() and then value() after next() returned true: the slot key() read
\* and how the two calls ended.
classicSlot(iter) == <<classicKey(iter).addr, classicKey(iter).idx>>
classicAccess(m, iter) ==
  IF classicKey(iter).r = "panic" THEN "panic"
  ELSE IF classicValue(m, iter).r = "panic" THEN "panic"
  ELSE IF classicKey(iter).r = "nil" \/ classicValue(m, iter).r = "nil" THEN "nil"
  ELSE "ok"
\* One call of next(), and of key() and value() when it returned true.
CallClassicNext ==
  /\ phase = "iter"
  /\ it.impl = "classic"
  /\ Len(trace) < MaxCalls
  /\ Called(classicNext(Memory(src), it), classicSlot(classicNext(Memory(src), it).it),
            classicAccess(Memory(src), classicNext(Memory(src), it).it))

NextClassic == NewClassicIterator \/ CallClassicNext

SpecClassic == InitClassic /\ [][NextClassic]_vars

(***************************************************************************)
(* Properties of the classic map iterator.                                 *)
(***************************************************************************)
\* The slots that hold the keys of the map: those whose tophash is a hash.
LiveSlots(d) ==
  {sl \in HeapAddrs(d) \X (0..(MaxSlots - 1)) : HeapAt(d, sl[1]).tophash[sl[2] + 1] >= LiveByte(d)}
\* The slots yielded by the calls of tr that returned true, in order.
RECURSIVE YieldsOf(_)
YieldsOf(tr) ==
  IF tr = <<>> THEN <<>>
  ELSE LET n == Len(tr)
       IN IF tr[n].r = "true" THEN Append(YieldsOf(SubSeq(tr, 1, n - 1)), tr[n].slot)
          ELSE YieldsOf(SubSeq(tr, 1, n - 1))
NoDuplicates(seq) == \A i, j \in 1..Len(seq) : seq[i] = seq[j] => i = j
Range(seq) == {seq[i] : i \in 1..Len(seq)}
ClassicRun == src.entry = "mapIteratorClassic" /\ phase \in {"iter", "done"}
\* next() has just returned false for the first time.
Exhausted == Len(trace) > 0 /\ trace[Len(trace)].r = "false" /\ Falses(trace) = 1
\* A well-formed map iterated without a bucket cap.
WholeMap == src.maxNumBuckets = 0 /\ src.variant \in {"none", "zeroSizeValues", "nilmap", "nobuckets"}
YieldsAllOnce ==
  /\ Falses(trace) = 0 => \A i \in 1..Len(trace) : trace[i].r = "true"
  /\ Exhausted =>
       /\ Len(YieldsOf(trace)) = Cardinality(LiveSlots(src.desc))
       /\ Range(YieldsOf(trace)) = LiveSlots(src.desc)

\* C14: iterating a classic map that holds N keys, without a bucket cap,
\* next() returns true exactly N times before it returns false and the
\* slots yielded are the N slots that hold the keys, each once, in every
\* growth state (none, or growing with any set of old buckets evacuated,
\* with overflow chains).
C14_ClassicRoundTrip == (ClassicRun /\ WholeMap) => YieldsAllOnce

(***************************************************************************)
(* The Swiss map iterator.  The directory is a slice of tables; a table    *)
(* has its index, the address of its groups and their lengthMask; a group  *)
(* is swissMapGroupSlots control bytes followed by the slots.              *)
(***************************************************************************)
MaxTables == 2       \* tables of a Swiss map
MaxMaskBits == 1     \* the lengthMask of a table is 2^k - 1, k in 0..MaxMaskBits

swissMapGroupSlots == 8
swissTableCtrlEmpty == 128
swissTableGroupSlotsOffset == 8
\* The control byte of a deleted slot, and control bytes of full slots.
CtrlDeleted == 254
CtrlFullMin == 0
CtrlFullMax == 127

\* A description of a Swiss map: for each table its number of directory
\* entries (copies), its lengthMask and the pattern of each of its groups.
\* "empty": no slot is full; "full": every slot is; "last": the last slot is
\* full, the one before it is deleted; "bytes": the bytes of AssortedBytes;
\* "byte": slot at holds byte, the other slots are empty.
Pattern(name) == [name |-> name, byte |-> 0, at |-> 0]
OneByte(n, k) == [name |-> "byte", byte |-> n, at |-> k]
GroupPatterns == {Pattern("empty"), Pattern("full"), Pattern("last"), Pattern("bytes")}
AssortedBytes == <<CtrlFullMin, swissTableCtrlEmpty, CtrlDeleted, CtrlFullMax,
                   swissTableCtrlEmpty + 1, CtrlDeleted + 1, 1, swissTableCtrlEmpty + 64>>
PatternByte(p, k) ==
  CASE p.name = "empty" -> swissTableCtrlEmpty
    [] p.name = "byte" -> IF k = p.at THEN p.byte ELSE swissTableCtrlEmpty
    [] p.name = "full" -> CtrlFullMax - k
    [] p.name = "last" -> IF k = swissMapGroupSlots - 1 THEN CtrlFullMin
                     ELSE IF k = swissMapGroupSlots - 2 THEN CtrlDeleted
                     ELSE swissTableCtrlEmpty
    [] OTHER -> AssortedBytes[k + 1]

SwissType == [SlotSize |-> 2, ElemOff |-> 1, GroupSize |-> swissTableGroupSlotsOffset + 2 * swissMapGroupSlots]
MaxGroups == 2 ^ MaxMaskBits
TableDescs ==
  UNION {[copies : {1, 2}, lengthMask : {2 ^ k - 1}, groups : [0..(2 ^ k - 1) -> GroupPatterns]] :
           k \in 0..MaxMaskBits}
RECURSIVE DirLen(_, _)
\* The number of directory entries of the first n tables.
DirLen(tabs, n) == IF n = 0 THEN 0 ELSE tabs[n].copies + DirLen(tabs, n - 1)
IsPowerOfTwo(n) == \E k \in 0..n : 2 ^ k = n
SwissMaps ==
  UNION {{tabs \in [1..n -> TableDescs] : IsPowerOfTwo(DirLen(tabs, n))} : n \in 1..MaxTables}

\* The table of directory entry i (from 0), and the directory position of
\* the first entry of table c, which is the index field of the table.
RECURSIVE TableOfEntry(_, _, _)
TableOfEntry(tabs, i, c) ==
  IF i < DirLen(tabs, c) THEN c ELSE TableOfEntry(tabs, i, c + 1)
TableIndex(tabs, c) == DirLen(tabs, c - 1)
\* The layout: the groups of table c start at GroupsData(c) and follow each
\* other.
GroupsData(c) == SwissType.GroupSize * (1 + (c - 1) * MaxGroups)
TableOfAddr(a) == ((a \div SwissType.GroupSize) - 1) \div MaxGroups + 1
GroupOfAddr(a) == ((a \div SwissType.GroupSize) - 1) % MaxGroups
\* The control byte at address a, which is in the control array of a group.
CtrlByteAt(tabs, a) ==
  PatternByte(tabs[TableOfAddr(a)].groups[GroupOfAddr(a)], a % SwissType.GroupSize)

\* An input: the description, the variant of the memory image ("none": as
\* described; "dirNotSlice", "noGroups": a defect of the types; "tab": the
\* directory entries of bad cannot be loaded; "index", "data", "lengthMask":
\* that field of the tables of bad cannot be read; "ctrl": the control bytes
\* at the addresses of bad cannot be read) and the cap.
SwissInput(d, variant, bad, cap) ==
  [entry |-> "mapIteratorSwiss", desc |-> d, variant |-> variant, bad |-> bad, maxNumGroups |-> cap]

errMapDirectoryNotSlice == "malformed map type: directory not a slice"
errSwissTableCouldNotLoad == "could not load one of the tables"
errSwissMapNoGroups == "swiss table type does not have groups field"
errSwissTableIndex == "could not load swiss table index"
errSwissGroupData == "could not load swiss table group data"
errSwissLengthMask == "could not load swiss table group lengthMask"
errSwissCtrl == "could not read swiss table group control array"

NilTable == [isnil |-> TRUE, index |-> 0, groupsData |-> 0, groupsLengthMask |-> 0]

\* Variable.mapIterator for a map whose type has the fields of a Swiss map.
swissIterator(s, maxNumBuckets) ==
  IF s.variant = "dirNotSlice" THEN [impl |-> "nil", Unreadable |-> errMapDirectoryNotSlice]
  ELSE [impl |-> "swiss", Unreadable |-> "",
        directory |-> [Len |-> DirLen(s.desc, Len(s.desc))],
        maxNumGroups |-> maxNumBuckets,
        slotSize |-> SwissType.SlotSize, elemOff |-> SwissType.ElemOff, groupSize |-> SwissType.GroupSize,
        dirIdx |-> 0, tab |-> NilTable, groupIdx |-> 0, group |-> 0, slotIdx |-> 0,
        groupCount |-> 0, curKey |-> 0, curValue |-> 0,
        scanned |-> <<>>]

nextTable(iter) == [iter EXCEPT !.dirIdx = @ + 1, !.tab = NilTable]
nextGroup(iter) == [iter EXCEPT !.groupIdx = @ + 1, !.group = 0]

\* loadCurrentTable from the read of the fields of the table c.
loadTableFields(s, iter, c) ==
  IF s.variant = "index" /\ c \in s.bad THEN [iter EXCEPT !.Unreadable = errSwissTableIndex]
  ELSE IF s.variant = "noGroups" THEN [iter EXCEPT !.Unreadable = errSwissMapNoGroups]
  ELSE IF s.variant = "data" /\ c \in s.bad THEN [iter EXCEPT !.Unreadable = errSwissGroupData]
  ELSE IF s.variant = "lengthMask" /\ c \in s.bad THEN [iter EXCEPT !.Unreadable = errSwissLengthMask]
  ELSE [iter EXCEPT !.tab = [isnil |-> FALSE, index |-> TableIndex(s.desc, c),
                             groupsData |-> GroupsData(c),
                             groupsLengthMask |-> s.desc[c].lengthMask]]

loadCurrentTable(s, iter) ==
  IF s.variant = "tab" /\ iter.dirIdx \in s.bad
  THEN [iter EXCEPT !.Unreadable = errSwissTableCouldNotLoad]
  ELSE loadTableFields(s, iter, TableOfEntry(s.desc, iter.dirIdx, 1))

\* The field scanned of the iterator is history: the groups it loaded, each
\* with the directory index it belongs to.
loadCurrentGroup(iter) ==
  [iter EXCEPT !.group = iter.tab.groupsData + iter.groupIdx * iter.groupSize,
               !.scanned = Append(@, [dirIdx |-> iter.dirIdx, groupIdx |-> iter.groupIdx])]

slotKey(iter, k) == iter.group + swissTableGroupSlotsOffset + k * iter.slotSize
slotValue(iter, k) == iter.group + swissTableGroupSlotsOffset + k * iter.slotSize + iter.elemOff

\* n & swissTableCtrlEmpty on a byte.
AndCtrlEmpty(n) == ((n \div swissTableCtrlEmpty) % 2) * swissTableCtrlEmpty
\* Variant of slotIsEmpty that compares the whole byte.
slotIsEmptyEqual(s, iter, k) ==
  IF s.variant = "ctrl" /\ (iter.group + k) \in s.bad
  THEN [it |-> [iter EXCEPT !.Unreadable = errSwissCtrl], empty |-> TRUE]
  ELSE [it |-> iter, empty |-> CtrlByteAt(s.desc, iter.group + k) = swissTableCtrlEmpty]
\* slotIsEmpty: the iterator (whose Unreadable it may set) and the result.
slotIsEmpty(s, iter, k) ==
  IF s.variant = "ctrl" /\ (iter.group + k) \in s.bad
  THEN [it |-> [iter EXCEPT !.Unreadable = errSwissCtrl], empty |-> TRUE]
  ELSE [it |-> iter,
        empty |-> AndCtrlEmpty(CtrlByteAt(s.desc, iter.group + k)) = swissTableCtrlEmpty]

RECURSIVE swissNext(_, _)
RECURSIVE swissGroups(_, _)
RECURSIVE swissSlots(_, _)
\* The body of the loop over the slots for a slot that is not empty.
swissYield(iter, k) ==
  LET i1 == [iter EXCEPT !.curKey = slotKey(iter, k), !.curValue = slotValue(iter, k),
                         !.slotIdx = @ + 1]
  IN IF i1.slotIdx >= swissMapGroupSlots
     THEN [it |-> [nextGroup(i1) EXCEPT !.slotIdx = 0], r |-> "true"]
     ELSE [it |-> i1, r |-> "true"]
\* The body of the loop over the slots, e being the result of slotIsEmpty.
swissSlot(s, e, k) ==
  IF e.empty THEN swissSlots(s, [e.it EXCEPT !.slotIdx = @ + 1])
  ELSE swissYield(e.it, k)
\* The loop over the slots of the current group, from its condition.
swissSlots(s, iter) ==
  IF iter.slotIdx < swissMapGroupSlots
  THEN swissSlot(s, slotIsEmpty(s, iter, iter.slotIdx), iter.slotIdx)
  ELSE swissGroups(s, nextGroup([iter EXCEPT !.slotIdx = 0]))
\* The body of the loop over the groups after loadCurrentGroup.
swissGroupLoaded(s, iter) ==
  IF iter.group = 0 THEN [it |-> iter, r |-> "false"] ELSE swissSlots(s, iter)
\* Variant of swissGroups that does not look at the cap.
swissGroupsUncapped(s, iter) ==
  IF iter.groupIdx <= iter.tab.groupsLengthMask
  THEN IF iter.group = 0 THEN swissGroupLoaded(s, loadCurrentGroup(iter))
       ELSE swissSlots(s, iter)
  ELSE swissNext(s, nextTable([iter EXCEPT !.groupCount = @ + iter.groupIdx,
                                           !.groupIdx = 0, !.group = 0]))
\* The loop over the groups of the current table, from its condition, and
\* the statements that follow it.
swissGroups(s, iter) ==
  IF iter.groupIdx <= iter.tab.groupsLengthMask
  THEN IF iter.maxNumGroups > 0 /\ iter.groupIdx + iter.groupCount >= iter.maxNumGroups
       THEN [it |-> iter, r |-> "false"]
       ELSE IF iter.group = 0 THEN swissGroupLoaded(s, loadCurrentGroup(iter))
       ELSE swissSlots(s, iter)
  ELSE swissNext(s, nextTable([iter EXCEPT !.groupCount = @ + iter.groupIdx,
                                           !.groupIdx = 0, !.group = 0]))
\* Variant of swissTableLoaded that scans the table of every directory
\* entry.
swissTableLoadedNoSkip(s, iter) ==
  IF iter.tab.isnil THEN [it |-> iter, r |-> "false"] ELSE swissGroups(s, iter)
\* next() after loadCurrentTable.
swissTableLoaded(s, iter) ==
  IF iter.tab.isnil THEN [it |-> iter, r |-> "false"]
  ELSE IF iter.tab.index # iter.dirIdx THEN swissNext(s, nextTable(iter))
  ELSE swissGroups(s, iter)
\* mapIteratorSwiss.next.
swissNext(s, iter) ==
  IF iter.dirIdx < iter.directory.Len
  THEN IF iter.tab.isnil THEN swissTableLoaded(s, loadCurrentTable(s, iter))
       ELSE swissGroups(s, iter)
  ELSE [it |-> iter, r |-> "false"]

\* The maps that are given a defect, and the maps of one group that holds
\* one byte that may not be the byte of an empty slot.
PlainSwissMaps ==
  {d \in SwissMaps : \A c \in 1..Len(d) : \A g \in DOMAIN d[c].groups : d[c].groups[g].name # "bytes"}
ByteValues == 0..(2 ^ 8 - 1)
OneByteMaps ==
  {<<[copies |-> 1, lengthMask |-> 0, groups |-> [g \in {0} |-> OneByte(n, k)]]>> :
     n \in ByteValues, k \in 0..(swissMapGroupSlots - 1)}
CtrlAddrs(d) ==
  {GroupsData(c) + g * SwissType.GroupSize + k :
     c \in 1..Len(d), g \in 0..MaxGroups - 1, k \in {0, swissMapGroupSlots - 1}}
SwissInputs ==
  {SwissInput(d, "none", {}, cap) : d \in SwissMaps, cap \in 0..MaxCap}
  \cup {SwissInput(d, "none", {}, 0) : d \in OneByteMaps}
  \cup {SwissInput(d, x, {}, 0) : d \in PlainSwissMaps, x \in {"dirNotSlice", "noGroups"}}
  \cup UNION {{SwissInput(d, "tab", {i}, 0) : i \in 0..(DirLen(d, Len(d)) - 1)} : d \in PlainSwissMaps}
  \cup UNION {{SwissInput(d, x, {c}, 0) : c \in 1..Len(d), x \in {"index", "data", "lengthMask"}} :
                d \in PlainSwissMaps}
  \cup UNION {{SwissInput(d, "ctrl", {a}, 0) :
                 a \in {a \in CtrlAddrs(d) : GroupOfAddr(a) \in DOMAIN d[TableOfAddr(a)].groups}} :
                d \in PlainSwissMaps}

InitSwiss ==
  /\ src \in SwissInputs
  /\ phase = "input"
  /\ ops = <<>>
  /\ err = ""
  /\ depthTab = <<>>
  /\ pc = 0
  /\ stack = <<>>
  /\ lastpc = -1
  /\ executed = {}
  /\ nstart = <<>>
  /\ ncomplete = <<>>
  /\ pinIter = 0
  /\ env = [n \in BoolLocals |-> "?"]
  /\ it = NoIter
  /\ trace = <<>>
  /\ user = NoUser
  /\ last = NoCall
  /\ inflight = NoInflight

NewSwissIterator ==
  /\ phase = "input"
  /\ src.entry = "mapIteratorSwiss"
  /\ it' = swissIterator(src, src.maxNumGroups)
  /\ phase' = IF it'.impl = "nil" THEN "done" ELSE "iter"
  /\ UNCHANGED <<src, ops, err, depthTab, pc, stack, lastpc, executed, nstart, ncomplete, pinIter, env, trace, user, last, inflight>>

swissKey(iter) == <<iter.curKey, iter.curValue>>
CallSwissNext ==
  /\ phase = "iter"
  /\ it.impl = "swiss"
  /\ Called(swissNext(src, it), swissKey(swissNext(src, it).it), "ok")

NextSwiss == NewSwissIterator \/ CallSwissNext

SpecSwiss == InitSwiss /\ [][NextSwiss]_vars

(***************************************************************************)
(* Properties of the Swiss map iterator.                                   *)
(***************************************************************************)
SwissRun == src.entry = "mapIteratorSwiss" /\ phase \in {"iter", "done"} /\ it.impl = "swiss"
\* The slots of the tables of a map: table, group, slot.
SwissSlots(d) ==
  UNION {(({c} \X DOMAIN d[c].groups) \X (0..(swissMapGroupSlots - 1))) : c \in 1..Len(d)}
SlotCtrl(d, sl) == PatternByte(d[sl[1][1]].groups[sl[1][2]], sl[2])
\* What key() and value() give for a slot: the addresses of its key and of
\* its value.
SlotKeyValue(sl) ==
  LET key == GroupsData(sl[1][1]) + sl[1][2] * SwissType.GroupSize
               + swissTableGroupSlotsOffset + sl[2] * SwissType.SlotSize
  IN <<key, key + SwissType.ElemOff>>
RECURSIVE GroupsBefore(_, _)
\* The number of groups of the tables before table c.
GroupsBefore(d, c) == IF c = 1 THEN 0 ELSE d[c - 1].lengthMask + 1 + GroupsBefore(d, c - 1)
\* The place of the group of a slot among the groups of the map.
GroupOrdinal(d, sl) == GroupsBefore(d, sl[1][1]) + sl[1][2]
Increasing(seq) == \A i, j \in 1..Len(seq) : i < j => seq[i][1] < seq[j][1]
\* Only groups reached through the first directory entry of their table
\* are scanned.
OnlyCanonicalScanned ==
  \A i \in 1..Len(it.scanned) :
     TableIndex(src.desc, TableOfEntry(src.desc, it.scanned[i].dirIdx, 1)) = it.scanned[i].dirIdx
HasDuplicateEntry(d) == \E c \in 1..Len(d) : d[c].copies > 1
UncappedSwiss == SwissRun /\ src.variant = "none" /\ src.maxNumGroups = 0

\* C15 as stated: without a group cap, the groups of duplicate directory
\* entries are not scanned, and the slots whose control byte is not 0x80
\* are yielded once each, in (directory index, group, slot) order.
C15_YieldsEveryNonEmptySlot ==
  UncappedSwiss =>
     /\ OnlyCanonicalScanned
     /\ Increasing(YieldsOf(trace))
     /\ Falses(trace) = 0 => \A i \in 1..Len(trace) : trace[i].r = "true"
     /\ Exhausted =>
          Range(YieldsOf(trace)) =
             {SlotKeyValue(sl) : sl \in {sl \in SwissSlots(src.desc) :
                                           SlotCtrl(src.desc, sl) # swissTableCtrlEmpty}}

\* C15 amended: the slots yielded are those whose control byte has its
\* high bit clear: a deleted slot is not yielded.
C15_YieldsEveryFullSlot ==
  UncappedSwiss =>
     /\ OnlyCanonicalScanned
     /\ Increasing(YieldsOf(trace))
     /\ Falses(trace) = 0 => \A i \in 1..Len(trace) : trace[i].r = "true"
     /\ Exhausted =>
          Range(YieldsOf(trace)) =
             {SlotKeyValue(sl) : sl \in {sl \in SwissSlots(src.desc) :
                                           SlotCtrl(src.desc, sl) <= CtrlFullMax}}

\* C15 witness: a map with a duplicate directory entry, a deleted slot and
\* two tables was iterated to the end and yielded slots of both tables.
C15_Witness ==
  /\ UncappedSwiss
  /\ Exhausted
  /\ Len(src.desc) > 1
  /\ HasDuplicateEntry(src.desc)
  /\ \E sl \in SwissSlots(src.desc) : SlotCtrl(src.desc, sl) = CtrlDeleted
  /\ \E i, j \in 1..Len(it.scanned) : it.scanned[i].dirIdx # it.scanned[j].dirIdx
  /\ Len(YieldsOf(trace)) > swissMapGroupSlots

\* A map of one group where one slot holds the byte n and the others are
\* empty, iterated to the end.
OneByteRun == UncappedSwiss /\ src.desc \in OneByteMaps /\ Exhausted
TheByte == src.desc[1].groups[0].byte
TheSlot == <<<<1, 0>>, src.desc[1].groups[0].at>>

\* C16 as stated: the slot is empty iff its control byte is 0b10000000;
\* with any other control byte it is yielded.
C16_EmptyIffCtrlEmpty ==
  OneByteRun =>
     YieldsOf(trace) = IF TheByte = swissTableCtrlEmpty THEN <<>> ELSE <<SlotKeyValue(TheSlot)>>

\* C16 amended: the slot is empty iff the high bit of its control byte is
\* set (byte >= 0b10000000, which takes in the deleted slots); it is yielded
\* iff the high bit is clear.
C16_EmptyIffHighBit ==
  OneByteRun =>
     YieldsOf(trace) = IF TheByte >= swissTableCtrlEmpty THEN <<>> ELSE <<SlotKeyValue(TheSlot)>>

\* C16 witness: the slot held the control byte of a deleted slot and was
\* not yielded.
C16_Witness == OneByteRun /\ TheByte = CtrlDeleted /\ YieldsOf(trace) = <<>>

\* The slots of the first M groups of the map whose control byte has its
\* high bit clear.
FullSlotsBelow(d, M) ==
  {sl \in SwissSlots(d) : SlotCtrl(d, sl) <= CtrlFullMax /\ GroupOrdinal(d, sl) < M}
ScannedOrdinal(d, g) == GroupsBefore(d, TableOfEntry(d, g.dirIdx, 1)) + g.groupIdx

\* C17: with a group cap M > 0 the groups scanned are groups number 0 to
\* M - 1 of the map, counting the groups of each table once whatever the
\* number of its directory entries; at most M groups are scanned, and when
\* next() returns false the slots yielded are the full slots of the first M
\* groups.
C17_GroupCap ==
  (SwissRun /\ src.variant = "none" /\ src.maxNumGroups > 0) =>
     /\ Len(it.scanned) <= src.maxNumGroups
     /\ \A i \in 1..Len(it.scanned) : ScannedOrdinal(src.desc, it.scanned[i]) < src.maxNumGroups
     /\ OnlyCanonicalScanned
     /\ Range(YieldsOf(trace)) \subseteq
          {SlotKeyValue(sl) : sl \in FullSlotsBelow(src.desc, src.maxNumGroups)}
     /\ Exhausted =>
          Range(YieldsOf(trace)) =
             {SlotKeyValue(sl) : sl \in FullSlotsBelow(src.desc, src.maxNumGroups)}

\* C17 witness: the cap stopped the iteration of a map with a duplicate
\* directory entry in its second table, before the last group of the map.
C17_Witness ==
  /\ SwissRun /\ src.variant = "none" /\ src.maxNumGroups > 0
  /\ Exhausted
  /\ HasDuplicateEntry(src.desc)
  /\ it.dirIdx > 0
  /\ it.groupCount > 0
  /\ it.groupIdx + it.groupCount = src.maxNumGroups
  /\ it.groupIdx <= it.tab.groupsLengthMask
  /\ YieldsOf(trace) # <<>>

\* C18 as stated: with a bucket cap M > 0 every top-level bucket made
\* current has a bucket index below M and below numbuckets.
C18_NoBucketPastCap ==
  (ClassicRun /\ src.maxNumBuckets > 0) =>
     \A i \in 1..Len(it.top) :
        it.top[i].bidx < src.maxNumBuckets /\ it.top[i].bidx < it.numbuckets

\* C18 amended: the cap is compared with the bucket index where the search
\* for the next top-level bucket starts, not where it ends: every search
\* starts below M and ends below numbuckets, at most M top-level buckets are
\* made current, and a bucket made current has an index of M or more only
\* when the map is growing and the search skipped buckets to reach it.
C18_CapCheckedWhereSearchStarts ==
  (ClassicRun /\ src.maxNumBuckets > 0) =>
     /\ Len(it.top) <= src.maxNumBuckets
     /\ \A i \in 1..Len(it.top) :
          /\ it.top[i].from < src.maxNumBuckets
          /\ it.top[i].bidx < it.numbuckets
          /\ it.top[i].bidx >= src.maxNumBuckets =>
               it.top[i].from < it.top[i].bidx /\ src.desc.grow # "none"

\* C18 witness: under a cap, a bucket whose index is not below the cap was
\* made current after the search skipped a bucket.
C18_Witness ==
  /\ ClassicRun
  /\ src.maxNumBuckets > 0
  /\ \E i \in 1..Len(it.top) :
       it.top[i].bidx >= src.maxNumBuckets /\ it.top[i].from < it.top[i].bidx

\* The defect of the input was met: a bucket of a defective type, or the
\* bucket with the unreadable field, was decoded; the unreadable tophash
\* byte was read.
DefectMet ==
  CASE src.variant \in TypeDefects -> it.seen # <<>>
    [] src.variant = "field" -> \E bf \in src.badFields : bf[1] \in Range(it.seen)
    [] src.variant = "byte" ->
         \E bb \in src.badBytes :
            /\ bb[1] \in Range(it.seen)
            /\ ~(it.b.Addr = bb[1] /\ it.idx <= bb[2] /\ trace[Len(trace)].r = "true")
    [] OTHER -> FALSE

\* C19: when a bucket fails decoding the Unreadable of the map variable is
\* set, the next() call in which it happened returns false, and every later
\* next() call returns false.
C19_ErrorAbsorbed ==
  (ClassicRun /\ Len(trace) > 0) =>
     /\ DefectMet => it.Unreadable # ""
     /\ \A i \in 1..Len(trace) : trace[i].unreadable # "" => trace[i].r = "false"

\* The defect of the input was met: the directory entry or the table that
\* cannot be read was loaded, the unreadable control byte was read.
SwissDefectMet ==
  CASE src.variant = "noGroups" -> Len(trace) > 0
    [] src.variant = "tab" -> \E i \in src.bad : it.dirIdx >= i /\ Len(trace) > 0
    [] src.variant \in {"index", "data", "lengthMask"} ->
         \E c \in src.bad : it.dirIdx >= TableIndex(src.desc, c) /\ Len(trace) > 0
    [] src.variant = "ctrl" ->
         \E a \in src.bad :
            LET c == TableOfAddr(a)
                g == GroupOfAddr(a)
                k == a % SwissType.GroupSize
            IN \/ it.dirIdx > TableIndex(src.desc, c)
               \/ it.dirIdx = TableIndex(src.desc, c) /\ it.groupIdx > g
               \/ it.dirIdx = TableIndex(src.desc, c) /\ it.groupIdx = g /\ it.slotIdx > k
    [] OTHER -> FALSE

\* C20: a failure of the Swiss iterator sets the Unreadable of the map
\* variable, and the next() call in which it happened returns false: it
\* yields no slot.
C20_SwissFailureStops ==
  (SwissRun /\ Len(trace) > 0) =>
     /\ SwissDefectMet => it.Unreadable # ""
     /\ \A i \in 1..Len(trace) :
          (trace[i].unreadable # "" /\ (i = 1 \/ trace[i - 1].unreadable = "")) =>
             trace[i].r = "false"

(***************************************************************************)
(* Hardware breakpoints (proc/breakpoints_linux_amd64.go).                 *)
(***************************************************************************)
\* The largest breakpoint address of the inputs (0: disable the breakpoint).
MaxAddr == 1
\* The calls of setHardwareBreakpoint that may be under way at once.
MaxCallers == 2
\* <sys/debugreg.h>.
DR_CONTROL == 7
DR_CONTROL_SHIFT == 16
DR_CONTROL_SIZE == 4
DR_ENABLE_SIZE == 2
DR_RW_EXECUTE == 0
DR_LEN_1 == 0

RECURSIVE BitAnd(_, _)
BitAnd(x, y) ==
  IF x = 0 \/ y = 0 THEN 0 ELSE (x % 2) * (y % 2) + 2 * BitAnd(x \div 2, y \div 2)
RECURSIVE BitOr(_, _)
BitOr(x, y) ==
  IF x = 0 THEN y
  ELSE IF y = 0 THEN x
  ELSE (IF x % 2 = 1 \/ y % 2 = 1 THEN 1 ELSE 0) + 2 * BitOr(x \div 2, y \div 2)
\* x &^ mask, which is x & ^mask at any width.
BitClear(x, mask) == x - BitAnd(x, mask)
ShiftLeft(x, n) == x * 2 ^ n

\* The thread ids of the inputs: thread 1 is stopped under ptrace, thread 2
\* is not a thread of the debugged process.
Tids == {1, 2}
Traced(tid) == tid = 1
errPtrace == "no such process"
errInvalidReg == "invalid debug register value"
\* offset(reg): the place of u_debugreg[reg] in struct user, here its index.
offset(reg) == reg
\* PTRACE_PEEKUSER and PTRACE_POKEUSER on the user area u.
PtracePeekUser(u, tid, off) ==
  IF Traced(tid) THEN [v |-> u[off], err |-> ""] ELSE [v |-> 0, err |-> errPtrace]
PtracePokeUser(u, tid, off, data) ==
  IF Traced(tid) THEN [user |-> [u EXCEPT ![off] = data], err |-> ""]
  ELSE [user |-> u, err |-> errPtrace]

drxmask(reg) ==
  BitOr(ShiftLeft(2 ^ DR_CONTROL_SIZE - 1, reg * DR_CONTROL_SIZE),
        ShiftLeft(2 ^ DR_ENABLE_SIZE - 1, reg * DR_ENABLE_SIZE))
drxenable(reg) == ShiftLeft(1, reg * DR_ENABLE_SIZE)
drxctl(reg) == ShiftLeft(BitOr(DR_RW_EXECUTE, DR_LEN_1), reg * DR_CONTROL_SIZE)
\* setHardwareBreakpoint after the address was written to the register.
setHardwareBreakpointEnable(poked, reg, tid, dr7) ==
  IF poked.err # "" THEN poked
  ELSE PtracePokeUser(poked.user, tid, offset(DR_CONTROL),
                      BitOr(BitClear(dr7, drxmask(reg)),
                            BitOr(ShiftLeft(drxctl(reg), DR_CONTROL_SHIFT), drxenable(reg))))
\* setHardwareBreakpoint after the control register was read.
setHardwareBreakpointPeeked(u, reg, tid, addr, peek) ==
  IF peek.err # "" THEN [user |-> u, err |-> peek.err]
  ELSE IF addr = 0
  THEN PtracePokeUser(u, tid, offset(DR_CONTROL), BitClear(peek.v, drxmask(reg)))
  ELSE setHardwareBreakpointEnable(PtracePokeUser(u, tid, offset(reg), addr), reg, tid, peek.v)
\* setHardwareBreakpoint: the user area after the call and the error.
setHardwareBreakpoint(u, reg, tid, addr) ==
  IF reg < 0 \/ reg > 3 THEN [user |-> u, err |-> errInvalidReg]
  ELSE setHardwareBreakpointPeeked(u, reg, tid, addr, PtracePeekUser(u, tid, offset(DR_CONTROL)))
clearHardwareBreakpoint(u, reg, tid) == setHardwareBreakpoint(u, reg, tid, 0)

RegArgs == (0 - 1)..4
AddrArgs == 0..MaxAddr
\* The callers: goroutines that may each be in a call of setHardwareBreakpoint.
\* A call hands each ptrace request to dbp.execPtraceFunc and waits for it, so
\* the requests of two calls can alternate.
Callers == 1..MaxCallers
\* A caller that is in no call, and one that has read DR7 as dr7 and is about
\* to make the request pc ("address": DRreg, "control": DR7).  The field
\* alone is history: no other call has been under way since this one began.
Idle == [pc |-> "idle", op |-> "", reg |-> 0, tid |-> 0, addr |-> 0, dr7 |-> 0, alone |-> TRUE]
AllIdle == \A g \in Callers : inflight[g] = Idle
InCall(at, op, reg, tid, addr, dr7) ==
  [pc |-> at, op |-> op, reg |-> reg, tid |-> tid, addr |-> addr, dr7 |-> dr7, alone |-> AllIdle]
\* The other callers when caller g has a call under way after this step:
\* their calls are no longer alone.
Accompanied(h) == IF inflight[h] = Idle THEN Idle ELSE [inflight[h] EXCEPT !.alone = FALSE]
\* The caller that takes the next call: the first that is idle.
FreeCaller == CHOOSE g \in Callers : inflight[g] = Idle /\ \A h \in 1..(g - 1) : inflight[h] # Idle
\* A step of the call c of caller g: the request gave r, and the call goes on
\* to the request next or returns (next "idle", or an error).
HwCalled(g, c, step, r, next) ==
  /\ user' = r.user
  /\ last' = [op |-> c.op, reg |-> c.reg, err |-> r.err, step |-> step, alone |-> c.alone]
  /\ inflight' = IF r.err # "" \/ next = "idle" THEN [inflight EXCEPT ![g] = Idle]
                 ELSE [h \in Callers |-> IF h = g THEN [c EXCEPT !.pc = next] ELSE Accompanied(h)]
  /\ UNCHANGED <<src, evalVars, mapVars>>
\* setHardwareBreakpoint up to its first request: the test of reg and the
\* read of DR7.
HwEntered(g, op, reg, tid, addr, peek) ==
  IF reg < 0 \/ reg > 3
  THEN HwCalled(g, InCall("idle", op, reg, tid, addr, 0), "reject",
                [user |-> user, err |-> errInvalidReg], "idle")
  ELSE HwCalled(g, InCall("idle", op, reg, tid, addr, peek.v), "peek",
                [user |-> user, err |-> peek.err], IF addr = 0 THEN "control" ELSE "address")

InitHW ==
  /\ src = [entry |-> "hardwareBreakpoints"]
  /\ phase = "hw"
  /\ ops = <<>>
  /\ err = ""
  /\ depthTab = <<>>
  /\ pc = 0
  /\ stack = <<>>
  /\ lastpc = -1
  /\ executed = {}
  /\ nstart = <<>>
  /\ ncomplete = <<>>
  /\ pinIter = 0
  /\ env = [n \in BoolLocals |-> "?"]
  /\ it = NoIter
  /\ trace = <<>>
  /\ user = [r \in 0..DR_CONTROL |-> 0]
  /\ last = NoCall
  /\ inflight = [g \in Callers |-> Idle]

SetHardwareBreakpoint ==
  /\ phase = "hw"
  /\ \E g \in Callers : inflight[g] = Idle
  /\ \E reg \in RegArgs, tid \in Tids, addr \in AddrArgs :
       HwEntered(FreeCaller, "setHardwareBreakpoint", reg, tid, addr,
                 PtracePeekUser(user, tid, offset(DR_CONTROL)))

ClearHardwareBreakpoint ==
  /\ phase = "hw"
  /\ \E g \in Callers : inflight[g] = Idle
  /\ \E reg \in RegArgs, tid \in Tids :
       HwEntered(FreeCaller, "clearHardwareBreakpoint", reg, tid, 0,
                 PtracePeekUser(user, tid, offset(DR_CONTROL)))

\* The request that writes the address to the debug register of the call.
PokeAddress ==
  /\ phase = "hw"
  /\ \E g \in Callers :
       /\ inflight[g].pc = "address"
       /\ HwCalled(g, inflight[g], "address",
                   PtracePokeUser(user, inflight[g].tid, offset(inflight[g].reg), inflight[g].addr),
                   "control")

\* The request that writes DR7, computed from the value the call read when
\* it began.
PokeControl ==
  /\ phase = "hw"
  /\ \E g \in Callers :
       /\ inflight[g].pc = "control"
       /\ HwCalled(g, inflight[g], "control",
                   IF inflight[g].addr = 0
                   THEN setHardwareBreakpointPeeked(user, inflight[g].reg, inflight[g].tid, 0,
                                                    [v |-> inflight[g].dr7, err |-> ""])
                   ELSE setHardwareBreakpointEnable([user |-> user, err |-> ""], inflight[g].reg,
                                                    inflight[g].tid, inflight[g].dr7),
                   "idle")

NextHW == SetHardwareBreakpoint \/ ClearHardwareBreakpoint \/ PokeAddress \/ PokeControl

SpecHW == InitHW /\ [][NextHW]_vars

\* The flags of DR7 that belong to a register: its local and global enable
\* bits, and its read/write and length bits.
\* Bit i of x, for 0 <= x < 2^31.
BitAt(x, i) == IF i > 30 THEN 0 ELSE (x \div 2 ^ i) % 2
EnableBits(reg) == {reg * DR_ENABLE_SIZE + k : k \in 0..(DR_ENABLE_SIZE - 1)}
ControlBits(reg) == {DR_CONTROL_SHIFT + reg * DR_CONTROL_SIZE + k : k \in 0..(DR_CONTROL_SIZE - 1)}
Disabled(u, reg) == \A i \in EnableBits(reg) \cup ControlBits(reg) : BitAt(u[DR_CONTROL], i) = 0
\* A call of clearHardwareBreakpoint has just returned without error, and no
\* other call was under way while it ran.
Cleared ==
  /\ last.op = "clearHardwareBreakpoint"
  /\ last.step = "control"
  /\ last.err = ""
  /\ last.alone

\* C21: after clearHardwareBreakpoint(reg, tid) the debug register reg holds
\* 0 and the flags of DR7 that belong to reg are clear; so after
\* setHardwareBreakpoint(reg, tid, addr) followed by
\* clearHardwareBreakpoint(reg, tid) the register holds 0 and its breakpoint
\* is disabled.
C21_ClearZeroesRegister ==
  Cleared => user[last.reg] = 0 /\ Disabled(user, last.reg)

(***************************************************************************)
(* The verifier and the abstract execution.                                *)
(***************************************************************************)
Accepted == phase \in {"done", "underflow"} /\ src.entry = "depthCheck" /\ err = ""

\* C22: when depthCheck accepts an op list, in the abstract execution from
\* index 0 with an empty stack, following each Jump to its target or to the
\* next instruction, the stack size before instruction i is depth[i] on
\* every path, no op pops more than the stack holds, and index len(ops) is
\* reached with endDepth values on the stack.
C22_VerifierSound ==
  Accepted =>
     /\ phase # "underflow"
     /\ Len(stack) = depthTab[pc]
     /\ pc < Len(ops) => Len(stack) >= Arity(ops[pc + 1])[1]
     /\ pc < Len(ops) => Len(AbstractApply(stack, Arity(ops[pc + 1]))) <= MaxDepth
     /\ pc = Len(ops) => Len(stack) = src.endDepth

\* C22 witness: the abstract execution of an accepted op list took a Jump
\* over an instruction and reached the end with one value on the stack.
C22_Witness ==
  /\ Accepted
  /\ pc = Len(ops)
  /\ lastpc >= 0
  /\ ops[lastpc + 1].op = "Jump"
  /\ pc > lastpc + 1
  /\ Len(stack) = 1

(***************************************************************************)
(* The order of the ops of a function call.                                *)
(***************************************************************************)
RECURSIVE ArgsLowered(_, _, _)
\* The context after the arguments i.. of a call were lowered from left to
\* right in context c, each string literal followed by its allocation.
ArgsLowered(c, args, i) ==
  IF i > Len(args) THEN c
  ELSE ArgsLowered(IF isStringLiteral(args[i])
                   THEN compileAllocLiteralString(compileAST(c, args[i]).ctx)
                   ELSE compileAST(c, args[i]).ctx, args, i + 1)
\* The input is a call lowered by call injection, and its program was
\* returned; the call has id 0.
TopCall == Succeeded /\ src.entry = "CompileAST" /\ IsInjectedCall(src.t)
PositionOf(os, o) == CHOOSE i \in 1..Len(os) : os[i] = o
Occurrences(os, o) == Cardinality({i \in 1..Len(os) : os[i] = o})
\* The pinning loop of call id starts at position p of os: it ends with a
\* jump back to p, and its first jump leaves it for the
\* CallInjectionComplete2 that follows it.
PinningLoopAt(os, p, id) ==
  /\ Occurrences(os, CallInjectionComplete2(id)) = 1
  /\ LET q == PositionOf(os, CallInjectionComplete2(id))
     IN /\ q > p + 2
        /\ os[p] = Jump("JumpIfPinningDone", FALSE, q - 1)
        /\ os[p + 1] = Op("PushPinAddress")
        /\ os[p + 2].op = "CallInjectionStartSpecial" /\ os[p + 2].Name = "runtime.(*Pinner).Pin"
        /\ os[q - 2] = Op("Pop")
        /\ os[q - 1] = Jump("JumpAlways", FALSE, p - 1)
\* The ops of the pinner-mode call at the top of t, in the order of the
\* claim, s being the position of its CallInjectionStart.
PinnerCallOrder(os, t, flags, s) ==
  LET n == Len(t.Args)
      fun == compileAST(compileGetDebugPinner([NewCtx(flags) EXCEPT !.curCall = 1]), t.Fun).ctx
  IN /\ s >= 2
     /\ SubSeq(os, 1, s - 2) = ArgsLowered(fun, t.Args, 1).ops
     /\ Len(fun.ops) <= s - 2
     /\ os[s - 1] = [Op("Roll") EXCEPT !.N = n]
     /\ os[s + 1] = Op("Pop")
     /\ os[s + 2] = CallInjectionSetTarget(0)
     /\ \A k \in 1..n : os[s + 2 + k] = CallInjectionCopyArg(0, n - k)
     /\ os[s + 3 + n] = CallInjectionComplete(0, TRUE)
     /\ PinningLoopAt(os, s + 4 + n, 0)

\* C23: the program of F(a0..a(n-1)) compiled with HasDebugPinner holds, in
\* this order: the ops of F, the ops of each argument from left to right
\* (a string literal followed by its allocation), Roll{n},
\* CallInjectionStart{HasFunc: true}, Pop, CallInjectionSetTarget,
\* CallInjectionCopyArg for n-1 down to 0, CallInjectionComplete with
\* DoPinning, the pinning loop, CallInjectionComplete2.
C23_PinnerCallOrder ==
  (TopCall /\ HasFlag(src.flags, HasDebugPinner)) =>
     /\ Occurrences(ops, CallInjectionStart(TRUE, 0)) = 1
     /\ PinnerCallOrder(ops, src.t, src.flags, PositionOf(ops, CallInjectionStart(TRUE, 0)))

\* C23 witness: a call with two arguments, one a string literal, was
\* compiled in pinner mode.
C23_Witness ==
  /\ TopCall
  /\ HasFlag(src.flags, HasDebugPinner)
  /\ Len(src.t.Args) = 2
  /\ isStringLiteral(src.t.Args[2])
  /\ ~isStringLiteral(src.t.Args[1])

RECURSIVE ArgsCopied(_, _, _, _)
\* The context after the arguments i.. of the legacy call id were lowered
\* in ascending order in context c: each argument, its allocation when it
\* is a string literal, its CallInjectionCopyArg.
ArgsCopied(c, id, args, i) ==
  IF i > Len(args) THEN c
  ELSE ArgsCopied(pushOp(IF isStringLiteral(args[i])
                         THEN compileAllocLiteralString(compileAST(c, args[i]).ctx)
                         ELSE compileAST(c, args[i]).ctx,
                         CallInjectionCopyArg(id, i - 1)), id, args, i + 1)
MaxOf(S) == CHOOSE x \in S : \A y \in S : y <= x
\* The context of the compilation when the ops os have been emitted.
CtxAt(os, flags) == [NewCtx(flags) EXCEPT !.ops = os, !.curCall = MaxOf(CallIds(os) \cup {0}) + 1]
PinnerOps == {"CallInjectionComplete2", "SetDebugPinner", "PushDebugPinner"}

\* C24: the program of F(a0..a(n-1)) compiled without HasDebugPinner holds,
\* after CallInjectionSetTarget{id}, for each argument in ascending order
\* its ops, its allocation sequence when it is a string literal and its
\* CallInjectionCopyArg{id, i}, and ends with
\* CallInjectionComplete{id, DoPinning: false}; it holds no
\* CallInjectionComplete2, no pinning loop, no SetDebugPinner and no
\* PushDebugPinner.
C24_LegacyCallOrder ==
  (TopCall /\ ~HasFlag(src.flags, HasDebugPinner)) =>
     /\ Occurrences(ops, CallInjectionSetTarget(0)) = 1
     /\ ops = Append(ArgsCopied(CtxAt(SubSeq(ops, 1, PositionOf(ops, CallInjectionSetTarget(0))),
                                      src.flags), 0, src.t.Args, 1).ops,
                     CallInjectionComplete(0, FALSE))
     /\ \A i \in 1..Len(ops) :
          /\ ops[i].op \notin PinnerOps
          /\ ~ops[i].DoPinning
          /\ ops[i].op = "Jump" => ops[i].When # "JumpIfPinningDone"

\* C24 witness: a call with two arguments, the first a string literal, was
\* compiled in legacy mode.
C24_Witness ==
  /\ TopCall
  /\ ~HasFlag(src.flags, HasDebugPinner)
  /\ Len(src.t.Args) = 2
  /\ isStringLiteral(src.t.Args[1])
  /\ ~isStringLiteral(src.t.Args[2])

(***************************************************************************)
(* The speculation of the legacy call path.                                *)
(***************************************************************************)
\* A call lowered by the legacy call path was the input of CompileAST, which
\* returned.
LegacyTop ==
  /\ Returned /\ lastpc = -1
  /\ src.entry = "CompileAST"
  /\ IsInjectedCall(src.t)
  /\ ~HasFlag(src.flags, HasDebugPinner)
\* The lowering of the function expression of the call with calls not
\* allowed: the ops it emits and its error.
Speculation(t, flags) ==
  compileAST([NewCtx(flags) EXCEPT !.allowCalls = FALSE, !.curCall = 1], t.Fun)
\* The ops of the call when its speculation sp succeeded.
SpeculationKept(os, sp) ==
  LET k == Len(sp.ctx.ops)
  IN /\ SubSeq(os, 1, k) = sp.ctx.ops
     /\ os[k + 1] = CallInjectionStart(TRUE, 0)
     /\ os[k + 2].op = "Jump" /\ os[k + 2].When = "JumpIfFalse" /\ os[k + 2].Pop
     /\ os[os[k + 2].Target + 1] = CallInjectionSetTarget(0)
     /\ os[k + 3] = Op("Pop")
\* The ops of the call when its speculation failed because of a call.
SpeculationDropped(os) ==
  /\ os[1] = CallInjectionStart(FALSE, 0)
  /\ os[2] = Op("Pop")
  /\ \A i \in 1..Len(os) :
       (os[i].op = "Jump" /\ os[i].Pop) => os[os[i].Target + 1] # CallInjectionSetTarget(0)
  /\ CallIds(os) = 0..MaxOf(CallIds(os))
LegacySpeculation(os, e, sp) ==
  /\ e \notin InternalErrors
  /\ e \notin {ErrFuncCallNotAllowed, errArgPrefix \o ErrFuncCallNotAllowed}
  /\ sp.err = "" => (e = "" => SpeculationKept(os, sp))
  /\ sp.err = ErrFuncCallNotAllowed => (e = "" => SpeculationDropped(os))
  /\ sp.err \notin {"", ErrFuncCallNotAllowed} => (e = sp.err /\ os = <<>>)

\* C25: in the legacy call path the function expression is first lowered
\* with calls not allowed.  When that succeeds its ops are kept and followed
\* by CallInjectionStart{HasFunc: true} and a Jump{JumpIfFalse, Pop: true}
\* to the CallInjectionSetTarget; when it fails with ErrFuncCallNotAllowed
\* the op list is what it was before, HasFunc is false and there is no Jump;
\* any other error is returned.  allowCalls is restored (calls in the
\* arguments and in the function expression are lowered) and a failed
\* speculation takes no call id.
C25_LegacySpeculation ==
  LegacyTop => LegacySpeculation(ops, err, Speculation(src.t, src.flags))

\* C25 witness: the speculation emitted an op and failed because of a call,
\* and the program was returned.
C25_Witness ==
  /\ LegacyTop
  /\ err = ""
  /\ src.t.Fun.kind = "IndexExpr"
  /\ Speculation(src.t, src.flags).err = ErrFuncCallNotAllowed
  /\ Speculation(src.t, src.flags).ctx.ops # <<>>

(***************************************************************************)
(* The shape of a string allocation.                                       *)
(***************************************************************************)
\* The special call to runtime.mallocgc that starts at position m of os:
\* its three arguments and its completion.
MallocCallAt(os, m, flags) ==
  /\ os[m + 1] = CallInjectionSetTarget(os[m].id)
  /\ os[m + 2] = Op("PushLen")
  /\ os[m + 3] = CallInjectionCopyArg(os[m].id, 0)
  /\ os[m + 4] = Op("PushNil")
  /\ os[m + 5] = CallInjectionCopyArg(os[m].id, 1)
  /\ os[m + 6] = OpNamed("PushConst", "false")
  /\ os[m + 7] = CallInjectionCopyArg(os[m].id, 2)
  /\ os[m + 8] = CallInjectionComplete(os[m].id, HasFlag(flags, HasDebugPinner))
MallocsAt(os) ==
  {m \in 1..Len(os) : os[m].op = "CallInjectionStartSpecial" /\ os[m].Name = "runtime.mallocgc"}
\* The allocation sequence that the Jump at position j of os starts: it
\* ends with the ConvertAllocToString before the target of the Jump (the
\* op at Go index i is os[i + 1]).
AllocSequenceAt(os, depth, j, flags) ==
  LET target == os[j].Target
  IN /\ target \in (j + 1)..Len(os)
     /\ os[target].op = "ConvertAllocToString"
     /\ Cardinality({m \in MallocsAt(os) : j < m /\ m < target}) = 1
     /\ \A m \in MallocsAt(os) : (j < m /\ m < target) => MallocCallAt(os, m, flags)
     /\ Cardinality({i \in ConvertsAt(os) : j < i /\ i <= target}) = 1
     /\ depth[j - 1] = depth[target]
     /\ depth[j] = depth[target]
     /\ depth[target - 1] = depth[target] + 1

\* C26: every allocation sequence starts with
\* Jump{JumpIfAllocStringChecksFail}, holds one special call to
\* runtime.mallocgc whose arguments are pushed by PushLen, PushNil and
\* PushConst(false) in that order, each followed by its
\* CallInjectionCopyArg, and ends with ConvertAllocToString; the target of
\* the Jump is the index after the ConvertAllocToString, and the stack depth
\* at the Jump is the depth at its target on both paths.
C26_AllocShape ==
  Succeeded =>
     /\ \A j \in AllocGuardsAt(ops) : AllocSequenceAt(ops, depthTab, j, src.flags)
     /\ \A i \in ConvertsAt(ops) : \E j \in AllocGuardsAt(ops) : ops[j].Target = i

\* C26 witness: a program with two allocation sequences, and one whose
\* allocation sequence holds the acquisition of the pinner.
C26_Witness ==
  /\ Succeeded
  /\ \/ Cardinality(AllocGuardsAt(ops)) = 2
     \/ \E j \in AllocGuardsAt(ops) : ops[j + 1].op = "CallInjectionStartSpecial"
                                       /\ ops[j + 1].Name = DebugPinnerFunctionName

(***************************************************************************)
(* The order of the ops of an assignment.                                  *)
(***************************************************************************)
\* The context after the right side of an assignment was lowered, with its
\* allocation when it is a string literal.
RhsLowered(rhe, flags) ==
  IF isStringLiteral(rhe) THEN compileAllocLiteralString(compileAST(NewCtx(flags), rhe).ctx)
  ELSE compileAST(NewCtx(flags), rhe).ctx
LocalsAssigned == src.entry = "CompileSet" /\ src.lhe = Ident("x") /\ src.rhe = Ident("y")

\* C27: the program of CompileSet(lhs, rhs) is the ops of rhs, then the
\* string allocation sequence when rhs is a string literal, then the ops of
\* lhs, then one SetValue, which is the last op; its depth at the end is 0.
\* For x = y with both locals it is PushLocal(y), PushLocal(x), SetValue.
C27_AssignmentOrder ==
  (Succeeded /\ src.entry = "CompileSet") =>
     /\ ops = Append(compileAST(RhsLowered(src.rhe, src.flags), src.lhe).ctx.ops, Op("SetValue"))
     /\ Len(RhsLowered(src.rhe, src.flags).ops) < Len(ops) - 1
     /\ depthTab[Len(ops)] = 0
     /\ LocalsAssigned =>
          ops = <<OpNamed("PushLocal", "y"), OpNamed("PushLocal", "x"), Op("SetValue")>>

\* C27 witness: an assignment of a string literal to a field was compiled.
C27_Witness ==
  /\ Succeeded
  /\ src.entry = "CompileSet"
  /\ isStringLiteral(src.rhe)
  /\ src.lhe.kind = "SelectorExpr"

\* C27 witness of its example: x = y was compiled.
C27_WitnessLocals == Succeeded /\ LocalsAssigned

(***************************************************************************)
(* The decision between a type cast and a function call.                   *)
(***************************************************************************)
InjectionOpNames == {"CallInjectionStart", "CallInjectionStartSpecial", "CallInjectionSetTarget",
                     "CallInjectionCopyArg", "CallInjectionComplete", "CallInjectionComplete2"}
InjectionOpsIn(os) == {i \in 1..Len(os) : os[i].op \in InjectionOpNames}
CompoundTypeKinds == {"ArrayType", "StructType", "FuncType", "InterfaceType", "MapType", "ChanType"}
\* The input is a call expression and its compilation has returned.
CallInput == Returned /\ lastpc = -1 /\ src.entry = "CompileAST" /\ src.t.kind = "CallExpr"
KnownValue(n) == n.kind = "Ident" /\ (HasBuiltin(n.Name) \/ HasLocal(n.Name) \/ HasGlobal("", n.Name))
\* The calls the statement says are function calls, and those it says are
\* type casts; n is the function expression without parentheses and stars.
SaidCall(t, n) == Len(t.Args) # 1 \/ KnownValue(n)
SaidCast(t, n) ==
  /\ Len(t.Args) = 1
  /\ \/ n.kind = "Ident" /\ ~KnownValue(n)
     \/ n.kind = "BasicLit" /\ n.Kind = "STRING"
     \/ n.kind \in CompoundTypeKinds
\* The outcome is that of lowering t as a function call.
LoweredAsCall(t, flags) ==
  /\ ops = CompileASTEnd(compileFunctionCall(NewCtx(flags), t)).ops
  /\ err = CompileASTEnd(compileFunctionCall(NewCtx(flags), t)).err
  /\ err = "" => /\ HasKind(ops, "BuiltinCall") \/ HasKind(ops, "CallInjectionStart")
                 /\ \A i \in 1..Len(ops) :
                      ops[i] # OpNamed("TypeCast", ExprToString(removeParen(t.Fun)))
\* The TypeCast op of a cast to the type written as the literal or the
\* type expression head.
CastTo(head) ==
  OpNamed("TypeCast", CASE head.kind = "Ident" -> head.Name
                        [] head.kind = "BasicLit" -> head.Value
                        [] head.kind = "ArrayType" -> "[]" \o head.Elt.Name)
\* A cast fails with the error of its argument, whose lowering is a, or
\* with that of the type lookup, never because calls are not allowed, and
\* returns no program then.
CastFailure(a) ==
  /\ a.err # "" => err = a.err
  /\ err # ErrFuncCallNotAllowed
  /\ (a.err = "" /\ err # "") => err \in {ErrTypeNotFound, errAmbiguousPrefix \o errNoSymbol}
  /\ err # "" => ops = <<>>
\* The outcome is that of lowering t as a type cast of its argument, whose
\* lowering is a: the program is the ops of the argument followed by one
\* TypeCast and holds no call injection opcode.
LoweredAsCastOnly(t, a) ==
  /\ CastFailure(a)
  /\ err = "" =>
       /\ a.err = ""
       /\ ops = Append(a.ctx.ops, CastTo(removeParen(t.Fun)))
       /\ InjectionOpsIn(ops) = {}
\* The outcome is that of lowering t as a type cast of its argument, whose
\* lowering is a: the program starts with the ops of the argument followed
\* by one TypeCast; the call injection opcodes before the TypeCast are those
\* of the argument, and ops follow the TypeCast only where the argument
\* holds an injected call, and then they are the release of the pinner that
\* CompileAST appends.
LoweredAsCast(t, a) ==
  /\ CastFailure(a)
  /\ err = "" =>
       /\ a.err = ""
       /\ Len(ops) > Len(a.ctx.ops)
       /\ SubSeq(ops, 1, Len(a.ctx.ops) + 1) = Append(a.ctx.ops, CastTo(removeParen(t.Fun)))
       /\ \/ Len(ops) = Len(a.ctx.ops) + 1
          \/ /\ InjectionOpsIn(a.ctx.ops) # {}
             /\ HasFlag(src.flags, HasDebugPinner)
             /\ Cardinality({i \in Len(a.ctx.ops) + 2..Len(ops) : IsStart(ops[i])}) = 1
             /\ \E i \in Len(a.ctx.ops) + 2..Len(ops) :
                   ops[i].op = "CallInjectionStartSpecial" /\ ops[i].Name = "runtime.(*Pinner).Unpin"
             /\ ops[Len(ops)] = Op("SetDebugPinner")

\* C28 as stated: a call expression with no or with several arguments is
\* lowered as a function call; one with a single argument whose function
\* expression, without parentheses and stars, is an identifier is lowered as
\* a function call when the identifier is a builtin, a local or a global of
\* the current package, and otherwise as a type cast: the ops of the
\* argument followed by one TypeCast, with no call injection opcode; one
\* whose function expression is a string literal or a compound type literal
\* is lowered as a type cast.
C28_CastOnly ==
  CallInput =>
     /\ SaidCall(src.t, removeParenStar(src.t.Fun)) => LoweredAsCall(src.t, src.flags)
     /\ SaidCast(src.t, removeParenStar(src.t.Fun)) =>
          LoweredAsCastOnly(src.t, compileAST(NewCtx(src.flags), src.t.Args[1]))

\* C28 amended: as stated, but the program of a cast holds the call
\* injection opcodes of its argument, and after the TypeCast those of the
\* release of the pinner when the argument holds an injected call and
\* HasDebugPinner is set; the cast itself adds none.
C28_CastOrCall ==
  CallInput =>
     /\ SaidCall(src.t, removeParenStar(src.t.Fun)) => LoweredAsCall(src.t, src.flags)
     /\ SaidCast(src.t, removeParenStar(src.t.Fun)) =>
          LoweredAsCast(src.t, compileAST(NewCtx(src.flags), src.t.Args[1]))

\* C28 witness: a cast of an injected call was compiled with HasDebugPinner
\* set; the ops of the call come first, then the TypeCast, then the release
\* of the pinner.
C28_Witness ==
  /\ CallInput
  /\ err = ""
  /\ SaidCast(src.t, removeParenStar(src.t.Fun))
  /\ HasFlag(src.flags, HasDebugPinner)
  /\ InjectionOpsIn(compileAST(NewCtx(src.flags), src.t.Args[1]).ctx.ops) # {}
  /\ ops[Len(ops)] = Op("SetDebugPinner")

\* A cast to a parenthesised type name and a cast to a type named by a
\* string literal were compiled: the TypeCast is the last op.
C28_CastToParen ==
  /\ CallInput
  /\ err = ""
  /\ src.t.Fun.kind = "ParenExpr"
  /\ SaidCast(src.t, removeParenStar(src.t.Fun))
  /\ ops[Len(ops)].op = "TypeCast"
C28_CastToLiteral ==
  /\ CallInput
  /\ err = ""
  /\ src.t.Fun.kind = "BasicLit"
  /\ ops = <<OpNamed("PushLocal", "x"), OpNamed("TypeCast", "\"T\"")>>

(***************************************************************************)
(* The constructs that are not supported.                                  *)
(***************************************************************************)
\* The error of the construct e, "" when e is supported.
Unsupported(e, flags) ==
  CASE e.kind = "SliceExpr" -> IF e.Slice3 THEN errSlice3 ELSE ""
    [] e.kind = "BinaryExpr" -> IF e.Op \in {"++", "--", "<-"} THEN errOperator ELSE ""
    [] e.kind = "CompositeLit" ->
         IF ~HasFlag(flags, HasDebugPinner) THEN errNotImpl
         ELSE IF e.Type.kind = "Ident" /\ e.Type.Name \in DOMAIN TypeTable
                 /\ ResolveTypedef(TypeTable[e.Type.Name]).kind # "StructType"
         THEN errNotImpl ELSE ""
    [] OTHER -> ""
\* The value of the element elt of a composite literal.
EltValue(elt) == IF elt.kind = "KeyValueExpr" THEN elt.Value ELSE elt
RECURSIVE HoldsUnsupported(_, _, _)
\* e is an unsupported construct or has one among its operands: the operands
\* of a binary expression, the arguments of a call, what a selector or a
\* parenthesis is applied to and, when inLits is set, the values of the
\* elements of a composite literal.
HoldsUnsupported(e, flags, inLits) ==
  \/ Unsupported(e, flags) # ""
  \/ CASE e.kind = "BinaryExpr" ->
            HoldsUnsupported(e.X, flags, inLits) \/ HoldsUnsupported(e.Y, flags, inLits)
       [] e.kind = "CallExpr" -> \E i \in 1..Len(e.Args) : HoldsUnsupported(e.Args[i], flags, inLits)
       [] e.kind \in {"SelectorExpr", "ParenExpr"} -> HoldsUnsupported(e.X, flags, inLits)
       [] e.kind = "CompositeLit" ->
            inLits /\ \E i \in 1..Len(e.Elts) : HoldsUnsupported(EltValue(e.Elts[i]), flags, inLits)
       [] OTHER -> FALSE
InputHoldsUnsupported(inLits) ==
  IF src.entry = "CompileAST" THEN HoldsUnsupported(src.t, src.flags, inLits)
  ELSE HoldsUnsupported(src.rhe, src.flags, inLits) \/ HoldsUnsupported(src.lhe, src.flags, inLits)

\* C29: a slice expression with three indexes, a binary expression whose
\* operator is ++, -- or <-, a composite literal compiled without
\* HasDebugPinner and a composite literal whose type resolves to something
\* that is not a struct are rejected wherever they stand in the input: the
\* compilation returns an error and no program, and the error is that of the
\* construct when the construct is the whole input.
C29_UnsupportedRejected ==
  (Returned /\ lastpc = -1) =>
     /\ InputHoldsUnsupported(TRUE) => err # "" /\ ops = <<>> /\ depthTab = <<>>
     /\ (src.entry = "CompileAST" /\ Unsupported(src.t, src.flags) # "") =>
          err = Unsupported(src.t, src.flags)

\* The constructs of C29 are rejected where they are not inside the value
\* of an element of a struct literal.
C29_RejectedOutsideLiterals ==
  (Returned /\ lastpc = -1) =>
     /\ InputHoldsUnsupported(FALSE) => err # "" /\ ops = <<>> /\ depthTab = <<>>
     /\ (src.entry = "CompileAST" /\ Unsupported(src.t, src.flags) # "") =>
          err = Unsupported(src.t, src.flags)

\* A composite literal of a type defined as a slice was rejected with
\* HasDebugPinner set.
C29_SliceLiteralRejected ==
  /\ Returned /\ lastpc = -1
  /\ src.entry = "CompileAST"
  /\ src.t = CompositeLit(Ident("TS"), <<>>)
  /\ HasFlag(src.flags, HasDebugPinner)
  /\ err = errNotImpl
  /\ ops = <<>>

\* A struct literal with a three-index slice inside the value of an element
\* was compiled with HasDebugPinner set, and a program was returned with no
\* error.
C29_AcceptedInLiteral ==
  /\ Returned /\ lastpc = -1
  /\ src.entry = "CompileAST"
  /\ src.t = CompositeLit(Ident("T"), <<BinaryExpr(Ident("x"), "+", ThreeIndexSlice)>>)
  /\ HasFlag(src.flags, HasDebugPinner)
  /\ err = ""
  /\ ops # <<>>

(***************************************************************************)
(* Lowering while calls are not allowed.                                   *)
(***************************************************************************)
RECURSIVE CallsIn(_)
RECURSIVE CallsInSeq(_, _)
CallsInSeq(es, i) == IF i > Len(es) THEN {} ELSE CallsIn(es[i]) \cup CallsInSeq(es, i + 1)
\* The call expressions in e.
CallsIn(e) ==
  CASE e.kind = "CallExpr" -> {e} \cup CallsIn(e.Fun) \cup CallsInSeq(e.Args, 1)
    [] e.kind = "BinaryExpr" -> CallsIn(e.X) \cup CallsIn(e.Y)
    [] e.kind = "IndexExpr" -> CallsIn(e.X) \cup CallsIn(e.Index)
    [] e.kind \in {"ParenExpr", "SelectorExpr", "StarExpr", "UnaryExpr"} -> CallsIn(e.X)
    [] OTHER -> {}
\* The call c has a string literal among its arguments, which needs an
\* allocation.
NeedsAllocation(c) == \E i \in 1..Len(c.Args) : isStringLiteral(c.Args[i])
\* Lowering the call c with calls not allowed fails and emits nothing; its
\* error is litErr when it has a string literal to allocate, and
\* ErrFuncCallNotAllowed otherwise.
PolicyOfCall(c, flags, litErr) ==
  IsInjectedCall(c) =>
     /\ compileAST([NewCtx(flags) EXCEPT !.allowCalls = FALSE, !.curCall = 1], c).ctx.ops = <<>>
     /\ compileAST([NewCtx(flags) EXCEPT !.allowCalls = FALSE, !.curCall = 1], c).err
          = IF NeedsAllocation(c) THEN litErr ELSE ErrFuncCallNotAllowed
\* What the speculation sp of the function expression fn emitted holds no
\* call injection opcode, and it failed when fn is a call.
NoCallSpeculated(fn, sp) ==
  /\ InjectionOpsIn(sp.ctx.ops) = {}
  /\ IsInjectedCall(fn) => sp.err \in {ErrFuncCallNotAllowed, errFuncCallNotAllowedLitAlloc}

\* C30 as stated: while allowCalls is false, lowering a function call that
\* is not a builtin fails with ErrFuncCallNotAllowed and emits no call
\* injection opcode, and lowering a string literal that needs an allocation
\* fails with the error of literal allocation.
C30_CallPolicy ==
  LegacyTop =>
     /\ NoCallSpeculated(src.t.Fun, Speculation(src.t, src.flags))
     /\ \A c \in CallsIn(src.t.Fun) : PolicyOfCall(c, src.flags, errFuncCallNotAllowedLitAlloc)

\* C30 amended: while allowCalls is false, lowering a function call that is
\* not a builtin fails with ErrFuncCallNotAllowed and emits no call injection
\* opcode, also when an argument of the call is a string literal that needs
\* an allocation; the error of literal allocation is returned neither by the
\* speculation nor by the entry point.
C30_CallPolicyAmended ==
  LegacyTop =>
     /\ NoCallSpeculated(src.t.Fun, Speculation(src.t, src.flags))
     /\ \A c \in CallsIn(src.t.Fun) : PolicyOfCall(c, src.flags, ErrFuncCallNotAllowed)
     /\ Speculation(src.t, src.flags).err # errFuncCallNotAllowedLitAlloc
     /\ err # errFuncCallNotAllowedLitAlloc

\* C30 witness: the function expression of a call is a call with a string
\* literal argument; its speculation failed with ErrFuncCallNotAllowed and
\* the program was returned.
C30_Witness ==
  /\ LegacyTop
  /\ err = ""
  /\ src.t.Fun = CallExpr(Ident("f"), <<StrLit>>)
  /\ Speculation(src.t, src.flags).err = ErrFuncCallNotAllowed
  /\ HasKind(ops, "ConvertAllocToString")

(***************************************************************************)
(* The selector of a local of another frame.                               *)
(***************************************************************************)
\* The value of an integer literal of Go, by its text.
LiteralValue == ("0" :> 0) @@ ("1" :> 1) @@ ("127" :> 127) @@ ("128" :> 128) @@ ("300" :> 300)
                  @@ ("0x7f" :> 127) @@ ("1_0" :> 10)
\* The input is runtime.frame(N).name with N an integer literal, and its
\* compilation has returned.
FrameSelected ==
  /\ Returned /\ lastpc = -1
  /\ src.entry = "CompileAST"
  /\ src.t.kind = "SelectorExpr"
  /\ src.t.X.kind = "CallExpr"
  /\ src.t.X.Fun = SelectorExpr(Ident("runtime"), "frame")
  /\ src.t.X.Args[1].kind = "BasicLit"
  /\ src.t.X.Args[1].Kind = "INT"

\* C31: for every integer literal N, runtime.frame(N).name is lowered to one
\* op, PushLocal{Name: name, Frame: N}.
C31_FrameSelector ==
  FrameSelected =>
     /\ err = ""
     /\ ops = <<[OpNamed("PushLocal", src.t.Sel) EXCEPT !.N = LiteralValue[src.t.X.Args[1].Value]]>>

\* For the literals in decimal digits that fit in 8 bits the selector is
\* lowered to that op, and for every other literal to an error and no op.
C31_FrameSelectorInt8 ==
  FrameSelected =>
     IF src.t.X.Args[1].Value \in {"0", "1", "127"}
     THEN /\ err = ""
          /\ ops = <<[OpNamed("PushLocal", src.t.Sel) EXCEPT !.N = LiteralValue[src.t.X.Args[1].Value]]>>
     ELSE err \in {errSyntax, errRange} /\ ops = <<>>

(***************************************************************************)
(* The bucket made current for a bucket index of a growing classic map.    *)
(***************************************************************************)
\* A well-formed classic map that is growing is being iterated.
ClassicGrowing ==
  /\ ClassicRun
  /\ it.impl = "classic"
  /\ src.variant = "none"
  /\ src.desc.grow # "none"
\* The old bucket index i & oldmask is not evacuated, and i is that index;
\* and: it is not evacuated, and i is another index.
FallsBack(i) == AndMask(i, it.oldmask) \notin src.desc.evac /\ AndMask(i, it.oldmask) = i
PassedOver(i) == AndMask(i, it.oldmask) \notin src.desc.evac /\ AndMask(i, it.oldmask) # i
\* The bucket indexes whose bucket, new or old, was made current.
MadeCurrent == {it.top[k].bidx : k \in 1..Len(it.top)}
\* The old bucket is current for an index exactly when the index falls back.
OldIffFallsBack == \A k \in 1..Len(it.top) : it.top[k].old <=> FallsBack(it.top[k].bidx)

\* C32 as stated: while oldbuckets is not null, for the bucket index i the
\* old bucket i & oldmask is made current if and only if it is not evacuated
\* and i = i & oldmask; in every other case the new bucket i is iterated.
C32_BucketChoice ==
  ClassicGrowing =>
     /\ OldIffFallsBack
     /\ \A k \in 1..Len(it.top) : it.top[k].from = it.top[k].bidx
     /\ (Exhausted /\ src.maxNumBuckets = 0) => MadeCurrent = 0..(it.numbuckets - 1)

\* C32 amended: the old bucket i & oldmask is made current if and only if it
\* is not evacuated and i = i & oldmask; when it is evacuated the new bucket
\* i is iterated; when it is not evacuated and i is another index, the index
\* i is passed over and no bucket is iterated for it.
C32_BucketChoiceOrSkip ==
  ClassicGrowing =>
     /\ OldIffFallsBack
     /\ \A k \in 1..Len(it.top) :
          /\ ~PassedOver(it.top[k].bidx)
          /\ \A i \in it.top[k].from..(it.top[k].bidx - 1) : PassedOver(i)
     /\ (Exhausted /\ src.maxNumBuckets = 0) =>
          MadeCurrent = {i \in 0..(it.numbuckets - 1) : ~PassedOver(i)}

\* C32 witness: an old bucket was made current for one index, an index was
\* passed over, and a new bucket was made current after it.
C32_Witness ==
  /\ ClassicGrowing
  /\ \E k \in 1..Len(it.top) : it.top[k].old
  /\ \E k \in 1..Len(it.top) : ~it.top[k].old /\ it.top[k].from < it.top[k].bidx

(***************************************************************************)
(* The evacuation test.                                                    *)
(***************************************************************************)
\* The first tophash byte of old bucket 0 was given a value, and the first
\* next() has been called.
PokedRun == ClassicRun /\ src.variant = "poke" /\ Len(trace) > 0
PokedByte == src.poked[<<PokedAddr, 0>>]
\* The pair of constants of the version of the producer.
EmptyOneOf(go112) == IF go112 THEN hashTophashEmptyOne ELSE hashTophashEmptyZero
MinTopHashOf(go112) == IF go112 THEN hashMinTopHashGo112 ELSE hashMinTopHashGo111

\* C33: mapEvacuated(b) is true if and only if tophash[0] of b is greater
\* than the empty-one sentinel and less than the minimum tophash, the pair
\* being that of Go 1.12 for a producer from Go 1.12 and the earlier pair
\* otherwise, for every value of the byte tophash[0].
C33_EvacuationTest ==
  PokedRun =>
     /\ mapEvacuated(Memory(src), it, Var(PokedAddr, "Struct", 0)) = "true"
          <=> (PokedByte > EmptyOneOf(src.desc.go112) /\ PokedByte < MinTopHashOf(src.desc.go112))
     /\ it.top[1].old
          <=> ~(PokedByte > EmptyOneOf(src.desc.go112) /\ PokedByte < MinTopHashOf(src.desc.go112))

\* C33 witness: the byte 4 is an evacuation mark for a producer from Go 1.12,
\* and the new bucket was iterated.
C33_Witness ==
  /\ PokedRun
  /\ src.desc.go112
  /\ PokedByte = hashMinTopHashGo111
  /\ ~it.top[1].old

(***************************************************************************)
(* The order of the buckets of an overflow chain.                          *)
(***************************************************************************)
\* A well-formed classic map is being iterated.
ClassicWellFormed == ClassicRun /\ it.impl = "classic" /\ src.variant = "none"
\* The overflow link of the bucket at address a.
OverflowOf(a) == HeapAt(src.desc, a).overflow
\* The number of the top-level bucket made current by the entry e of it.top.
TopNumber(e) ==
  IF e.old THEN 1 + 2 ^ src.desc.B + AndMask(e.bidx, it.oldmask) ELSE 1 + e.bidx
\* The buckets decoded, in order: a bucket with an overflow link is followed
\* by its overflow bucket, and only such a bucket is followed by an overflow
\* bucket.
ChainsInOrder ==
  /\ \A k \in 1..Len(it.seen) :
       OverflowOf(it.seen[k]) # 0 =>
          IF k < Len(it.seen) THEN it.seen[k + 1] = OverflowOf(it.seen[k])
          ELSE Falses(trace) = 0
  /\ \A k \in 1..Len(it.seen) :
       DepthOf(it.seen[k]) > 0 => (k > 1 /\ it.seen[k] = OverflowOf(it.seen[k - 1]))
  /\ Cardinality({k \in 1..Len(it.seen) : DepthOf(it.seen[k]) = 0}) = Len(it.top)
\* While an overflow bucket is current, the bucket index is the one set when
\* the top-level bucket of its chain was made current.
IndexKept ==
  (~it.b.isnil /\ it.b.Addr > 0 /\ DepthOf(it.b.Addr) > 0) =>
     /\ it.top # <<>>
     /\ it.bidx = it.top[Len(it.top)].bidx + 1
     /\ TopOf(it.b.Addr) = TopNumber(it.top[Len(it.top)])

\* C34: when the slots of the current bucket are exhausted and its overflow
\* link is not null, the overflow bucket becomes current before any bucket
\* of a higher bucket index; following the link does not advance the bucket
\* index; the whole overflow chain of bucket b is iterated before bucket
\* b + 1.
C34_OverflowFirst == ClassicWellFormed => (ChainsInOrder /\ IndexKept)

\* C34 witness: an overflow bucket was iterated after its top-level bucket,
\* and the next top-level bucket after it.
C34_Witness ==
  /\ ClassicWellFormed
  /\ Len(it.seen) >= 3
  /\ DepthOf(it.seen[1]) = 0
  /\ DepthOf(it.seen[2]) > 0
  /\ DepthOf(it.seen[3]) = 0
  /\ Len(it.top) >= 2
  /\ it.top[2].bidx > it.top[1].bidx

(***************************************************************************)
(* What holds when next() of the classic iterator returns true.            *)
(***************************************************************************)
\* The last call of next() returned true.
JustYielded ==
  /\ ClassicRun
  /\ it.impl = "classic"
  /\ Len(trace) > 0
  /\ trace[Len(trace)].r = "true"
\* The arrays of the current bucket have the same length, the slot accepted
\* is a slot of the bucket, its tophash is not an empty sentinel of the
\* producer, and key() and value() read that slot.
YieldInvariant ==
  /\ ~it.tophashes.isnil /\ ~it.keys.isnil /\ ~it.values.isnil
  /\ it.tophashes.Len = it.keys.Len
  /\ Memory(src).typ.ValueSize > 0 => it.tophashes.Len = it.values.Len
  /\ it.idx - 1 \in 0..(it.tophashes.Len - 1)
  /\ tophashAt(Memory(src), it.b.Addr, it.idx - 1)
       \notin {0 - 1, hashTophashEmptyZero, EmptyOneOf(src.desc.go112)}
  /\ trace[Len(trace)].access = "ok"
  /\ trace[Len(trace)].slot = <<it.b.Addr, it.idx - 1>>
  /\ classicKey(it) = Access("slot", it.b.Addr, it.idx - 1)
  /\ classicValue(Memory(src), it)
       = IF Memory(src).typ.ValueSize > 0 THEN Access("slot", it.b.Addr, it.idx - 1)
         ELSE Access("base", it.b.Addr, 0)

\* C35: whenever next() returns true, the tophash, keys and values arrays of
\* the current bucket have the same length (the values only when their size
\* is not zero), the slot accepted is one of the bucket, its tophash is not an
\* empty sentinel of the producer, and key() and value() refer to that slot
\* (value() to the base of the values array when the values have size zero).
C35_YieldInvariant == JustYielded => YieldInvariant

\* The same for the calls made before next() has returned false.
C35_YieldInvariantBeforeFalse == (JustYielded /\ Falses(trace) = 0) => YieldInvariant

(***************************************************************************)
(* C36: the debug pinner on every execution path.                          *)
(***************************************************************************)
\* The op the executor has just executed.
JustExecuted == ops[lastpc + 1]
\* An op that uses the debug pinner: PushDebugPinner, or a Complete that
\* pins.
UsesPinner(o) == o.op = "PushDebugPinner" \/ IsPinningComplete(o)
\* The acquisition's SetDebugPinner has been executed on this path.
PinnerSet == \E j \in executed : ops[j + 1].op = "SetDebugPinner"

\* C36: on every execution path of a returned program, for every outcome of
\* the allocation guard, a PushDebugPinner or a pinning Complete is executed
\* only after the acquisition's SetDebugPinner was executed on that path.
C36_PinnerOnEveryPath ==
  (phase = "exec" /\ lastpc >= 0 /\ UsesPinner(JustExecuted)) => PinnerSet

\* The same on the paths that did not take an allocation guard's jump
\* before any SetDebugPinner.
GuardSkippedAcquire ==
  \E j \in executed :
     /\ ops[j + 1].op = "Jump"
     /\ ops[j + 1].When = "JumpIfAllocStringChecksFail"
     /\ \E k \in (j + 1)..(ops[j + 1].Target - 1) : ops[k + 1].op = "SetDebugPinner"
     /\ \A k \in (j + 1)..(ops[j + 1].Target - 1) : k \notin executed
C36_PinnerUnlessGuardSkipped ==
  (phase = "exec" /\ lastpc >= 0 /\ UsesPinner(JustExecuted) /\ ~GuardSkippedAcquire)
     => PinnerSet

(***************************************************************************)
(* C37: call sequences do not interleave in pinner mode.                   *)
(***************************************************************************)
PinnerProgram == JustReturned /\ HasFlag(src.flags, HasDebugPinner)
\* The ids carried by the ops strictly between the indices a and b.
IdsBetween(os, a, b) == {os[k].id : k \in (a + 1)..(b - 1)} \ {-1}
\* The indices of the ops that carry id.
OpsOf(os, id) == {k \in 1..Len(os) : os[k].id = id}
\* No other id between a start of id and the Complete of id.
StartToCompleteClean(os, id) ==
  \A s \in StartsOf(os, id) : \A c \in WithId(os, "CallInjectionComplete", id) :
     s < c => IdsBetween(os, s, c) \subseteq {id}
\* The calls compiled while the function call with id was being lowered
\* (they were given a higher id and have an op before its start) lie
\* entirely before its start.
NestedBeforeStart(os, id) ==
  \A s \in WithId(os, "CallInjectionStart", id) :
     \A j \in CallIds(os) :
        (j > id /\ \E k \in OpsOf(os, j) : k < s) => \A k \in OpsOf(os, j) : k < s
\* Between the Complete of id and its Complete2 there is one call sequence,
\* that of runtime.(*Pinner).Pin.
OnlyPinLoopBeforeComplete2(os, id) ==
  \A c \in WithId(os, "CallInjectionComplete", id) :
     \A d \in WithId(os, "CallInjectionComplete2", id) :
        /\ c < d
        /\ Cardinality(IdsBetween(os, c, d)) = 1
        /\ \A j \in IdsBetween(os, c, d) :
              /\ \A k \in OpsOf(os, j) : c < k /\ k < d
              /\ \A k \in StartsOf(os, j) :
                    os[k] = CallInjectionStartSpecial(j, "runtime.(*Pinner).Pin")
\* The function calls to inject among the calls nested in the outermost
\* call of the input.
NestedCalls == {c \in CallsIn(src.t) \ {removeParen(src.t)} : IsInjectedCall(c)}
OutermostCall ==
  src.entry = "CompileAST" /\ removeParen(src.t).kind = "CallExpr"
     /\ IsInjectedCall(removeParen(src.t))

\* C37: in a program compiled with HasDebugPinner no op between the start of
\* a call id and the Complete of that id carries another id; the sequences
\* of the calls nested in the function expression or the arguments of a call
\* lie entirely before that call's start; and between a Complete and the
\* Complete2 of the same id lies only the Pin call of its pinning loop.
C37_CallIsolation ==
  PinnerProgram =>
     /\ \A id \in CallIds(ops) :
          /\ StartToCompleteClean(ops, id)
          /\ NestedBeforeStart(ops, id)
          /\ OnlyPinLoopBeforeComplete2(ops, id)
     /\ (OutermostCall /\ err = "") =>
          /\ \A k \in 1..Len(ops) :
                (ops[k].op = "CallInjectionStart" /\ ops[k].id # 0) =>
                   \A s \in StartsOf(ops, 0) : \A j \in OpsOf(ops, ops[k].id) : j < s
          /\ NestedCalls # {} =>
                \E k \in 1..Len(ops) : ops[k].op = "CallInjectionStart" /\ ops[k].id # 0

\* C37 witness: an accepted pinner-mode call with a nested call, a string
\* allocation and its own pinning loop.
C37_Witness ==
  /\ PinnerProgram
  /\ err = ""
  /\ OutermostCall
  /\ NestedCalls # {}
  /\ HasKind(ops, "ConvertAllocToString")
  /\ WithId(ops, "CallInjectionComplete2", 0) # {}

(***************************************************************************)
(* C38: the jumps of an accepted program.                                  *)
(***************************************************************************)
ConditionalJumps == {"JumpIfFalse", "JumpIfTrue", "JumpIfAllocStringChecksFail",
                     "JumpIfPinningDone"}
\* The indices (of the op list, from 0) of the Jump ops.
JumpsOf(os) == {k \in 0..Len(os) - 1 : os[k + 1].op = "Jump"}
\* The Jump at index k closes a pinning loop: it is a JumpAlways whose target
\* is a JumpIfPinningDone that leaves the loop just past it, where the
\* Complete2 of the loop's call is.
ClosesPinningLoop(os, k) ==
  /\ os[k + 1].When = "JumpAlways"
  /\ os[k + 1].Target \in JumpsOf(os)
  /\ os[os[k + 1].Target + 1].When = "JumpIfPinningDone"
  /\ os[os[k + 1].Target + 1].Target = k + 1
  /\ k + 2 <= Len(os)
  /\ os[k + 2].op = "CallInjectionComplete2"

\* C38: in a program returned without error every Jump has a target in
\* 0..len(ops), every conditional Jump goes forward, and a Jump that does not
\* go forward is the JumpAlways closing a pinning loop, aimed at the
\* JumpIfPinningDone of that loop.
C38_JumpsWellFormed ==
  (JustReturned /\ err = "") =>
     \A k \in JumpsOf(ops) :
        /\ ops[k + 1].Target \in 0..Len(ops)
        /\ ops[k + 1].When \in ConditionalJumps \cup {"JumpAlways"}
        /\ ops[k + 1].When \in ConditionalJumps => ops[k + 1].Target > k
        /\ ops[k + 1].Target <= k => ClosesPinningLoop(ops, k)
        /\ ops[k + 1].When = "JumpAlways" => ClosesPinningLoop(ops, k)

\* C38 witness: an accepted program with an allocation guard around a
\* pinning loop and its backward jump.
C38_Witness ==
  /\ JustReturned
  /\ err = ""
  /\ \E k \in JumpsOf(ops) : \E j \in JumpsOf(ops) :
        /\ ops[k + 1].When = "JumpIfAllocStringChecksFail"
        /\ ops[j + 1].When = "JumpAlways"
        /\ k < ops[j + 1].Target /\ ops[j + 1].Target < j /\ j < ops[k + 1].Target

(***************************************************************************)
(* C39: the classic iteration ends.                                        *)
(***************************************************************************)
ClassicIterating == ClassicRun /\ it.impl = "classic"
\* The cells of the bucket memory of the input: each can be yielded once.
CellsOf(s) == MaxSlots * Cardinality(HeapAddrs(s.desc))
\* The calls of next() made before the first one that returned false.
BeforeFalse(tr) == {i \in 1..Len(tr) : \A j \in 1..i : tr[j].r # "false"}
\* The bucket index never decreases and never exceeds numbuckets: read from
\* the history of the searches for a top-level bucket, each of which started
\* at the index the one before had left and ended at or after its start.
BucketIndexMonotonic ==
  /\ it.bidx <= it.numbuckets
  /\ \A i \in 1..Len(it.top) :
        /\ it.top[i].from <= it.top[i].bidx
        /\ it.top[i].bidx < it.bidx
        /\ i < Len(it.top) => it.top[i].bidx + 1 = it.top[i + 1].from
\* Every call made so far returned, and no more of them returned true
\* before the first false than the bucket memory has cells.
EndsAfterFinitelyManyCalls ==
  /\ \A i \in BeforeFalse(trace) : trace[i].r = "true"
  /\ Cardinality(BeforeFalse(trace)) <= CellsOf(src)

\* C39: for every header and bucket memory (any B, overflow links and
\* tophash bytes) the bucket index never decreases and never exceeds
\* numbuckets, and the calls of next() end with one that returns false: the
\* calls that return true are no more than the cells of the memory.
C39_IterationEnds ==
  ClassicIterating => (BucketIndexMonotonic /\ EndsAfterFinitelyManyCalls)

\* A call that did not return because the bucket type is malformed: next()
\* panicked before any call had returned false.
PanickedOnType(e) == e.r = "panic" /\ src.variant \in TypeDefects
EndsOrPanicsOnType ==
  /\ \A i \in BeforeFalse(trace) : trace[i].r = "true" \/ PanickedOnType(trace[i])
  /\ Cardinality(BeforeFalse(trace)) <= CellsOf(src)
\* The same for a bucket memory whose overflow links do not lead back to a
\* bucket of the same chain; a bucket type whose tophash is not an array
\* makes the call panic instead of returning.
C39_IterationEndsAcyclic ==
  (ClassicIterating /\ src.variant # "cycle") =>
     (BucketIndexMonotonic /\ EndsOrPanicsOnType)
\* The bucket index part holds for every memory.
C39_BucketIndex == ClassicIterating => BucketIndexMonotonic

(***************************************************************************)
(* C40: what a call on one debug register leaves alone.                    *)
(***************************************************************************)
Dr7Bits == 0..31
\* The call that makes this step was given a register in 0..3.
CallOnRegister == last'.reg \in 0..3
\* No other call has been under way since the call that makes this step
\* began.
CallAlone == last'.alone
\* The step writes no debug address register other than that of the call.
OtherAddressesKept == \A r \in (0..(DR_CONTROL - 1)) \ {last'.reg} : user'[r] = user[r]
\* The step changes no bit of DR7 at the places in S.
Dr7Kept(S) == \A i \in S : BitAt(user'[DR_CONTROL], i) = BitAt(user[DR_CONTROL], i)
\* The step changes in DR7 only the enable and control bits of the register
\* of the call.
OtherFlagsKept == Dr7Kept(Dr7Bits \ (EnableBits(last'.reg) \cup ControlBits(last'.reg)))
\* A call with a register outside 0..3 fails and writes nothing.
InvalidRegisterRejected == last'.err = errInvalidReg /\ user' = user

\* C40: setHardwareBreakpoint(reg, tid, addr) with reg in 0..3, to set or to
\* clear, changes in DR7 only the enable and control bits of reg and writes
\* no debug address register other than reg, so that a breakpoint set in
\* another register stays enabled with its address; with reg outside 0..3 it
\* returns an error and writes nothing.  The calls looked at are those that
\* run with no other call under way.
C40_RegisterFrame ==
  [][IF CallOnRegister THEN CallAlone => (OtherAddressesKept /\ OtherFlagsKept)
     ELSE InvalidRegisterRejected]_vars

\* What holds of every call, alone or not: the address registers of the
\* other breakpoints are kept, the control bits (from bit 16) of the other
\* registers are kept, and a register outside 0..3 is rejected with nothing
\* written.
C40_AddressesAndControlKept ==
  [][IF CallOnRegister
     THEN OtherAddressesKept /\ Dr7Kept((DR_CONTROL_SHIFT..31) \ ControlBits(last'.reg))
     ELSE InvalidRegisterRejected]_vars

====
